---- MODULE Spec2Model ----
(***************************************************************************)
(* The actor runtime of generator/actor (New, Queue, Stop, Direct) as a     *)
(* state machine: every goroutine the package starts (workers, the senders *)
(* that Queue spawns, the drain reader of Stop) is a process whose steps   *)
(* are the channel and WaitGroup operations of the source, and the callers *)
(* of the package are the test functions of the package, run as scripts.   *)
(* A goroutine started with `go` runs its first statement at any later     *)
(* time; a select with several ready cases takes any of them.              *)
(***************************************************************************)
EXTENDS Bags, FiniteSets, Integers, Sequences, TLC

\* ----------------------------------------------------------------- bounds
\* Worker count of the single actor of the Stop scenarios (the test uses 5).
NWorker == 2
\* Messages 1..NMsg queued in the Stop scenarios (the test uses 100).
NMsg == 2
\* Messages 1..MisuseMsg queued before the Stop that a misuse follows.
MisuseMsg == 1
\* Worker count of each actor of a pipeline (the tests use 3).
PipeWorker == 1
\* Size of the batch 1..PipeMsg fed to a pipeline (the tests use 4).
PipeMsg == 2
\* Direct is called with up to MaxDirect actors.
MaxDirect == 3
\* Worker counts asked of New range from -MaxBelow up to 1.
MaxBelow == 1

\* ------------------------------------------------------------ plain values
\* The nil interface value: what a receive on a closed channel yields, and
\* what a processor returns as result beside an error.
Nil == 0
\* No downstream actor (outbox == nil).
None == "none"
\* The program runs (no goroutine has panicked).
NoPanic == "running"
NegativeCounter == "sync: negative WaitGroup counter"
SendOnClosed == "send on closed channel"
CloseOfClosed == "close of closed channel"

Range(s) == {s[i] : i \in DOMAIN s}
SeqToBag(s) == [x \in Range(s) |-> Cardinality({i \in DOMAIN s : s[i] = x})]
RECURSIVE SumOver(_, _)
SumOver(S, f) ==
    IF S = {} THEN 0
    ELSE LET x == CHOOSE y \in S : TRUE IN f[x] + SumOver(S \ {x}, f)
\* Number of elements of a bag, copies counted.
Size(b) == SumOver(DOMAIN b, b)
One(x) == SetToBag({x})

VARIABLES
    inbox,       \* actor -> [buf, cap, closed]: the buffered channel actor.inbox
    outbox,      \* actor -> downstream actor or None
    options,     \* actor -> the Options New was called with
    process,     \* actor -> which Processor the actor was built with
    exception,   \* actor -> TRUE iff an Exception handler was given (non-nil)
    exit,        \* actor -> TRUE iff the exit channel is closed
    workgroup,   \* actor -> counter of the worker WaitGroup
    inboxgroup,  \* actor -> counter of the inbox WaitGroup
    work,        \* actor -> worker index -> the goroutine actor.work(w)
    senders,     \* bag of the goroutines started by (go) Queue
    stop,        \* actor -> where the caller of Stop is
    drain,       \* actor -> where the drain goroutine of Stop is
    pendings,    \* actor -> the named result of Stop, as gathered so far
    returned,    \* actor -> the list Stop returned
    main,        \* the calls the test function has still to make
    panic,       \* NoPanic, or the runtime panic that ended the program
    processed,   \* history: bag of <<actor, message>> given to process
    failed,      \* history: bag of <<actor, worker, message>>: process failed
    handled,     \* history: bag of <<actor, worker, message>> given to exception
    forwarded,   \* history: bag of <<actor, message>> whose result went to outbox
    enqueued,    \* history: actor -> number of messages that entered its inbox
    late,        \* history: set of <<actor, message>> queued after Stop returned
    stops,       \* history: actor -> number of Stop calls begun
    now,         \* package scheduler: time.Now(), in ticks
    scheduler,   \* the Scheduler: delegate, stop, pendings, wg
    event,       \* event -> the Event object NewEvent returned
    waiting,     \* event -> the goroutine Schedule fired for it
    closer,      \* the goroutine of Scheduler.Stop that closes pendings
    events,      \* Scheduler.Stop: where its caller is, and its named result
    delivered,   \* history: what the delegate was called with, in order
    errs,        \* history: event -> what Schedule returned for it
    att,         \* the slice of Attachment of the caller of NewEvent
    bytes,       \* address -> the array of bytes of a Body
    got,         \* the slice Event.Attachments() returned last
    srcV,        \* package filter: the source ParallelFilter is called with
    filter,      \* the filter function: the values it returns true for
    wg,          \* ParallelFilter: the counter of its WaitGroup
    queue,       \* ParallelFilter: the buffered channel queue
    result,      \* ParallelFilter: the slice the entries are appended to
    checks,      \* index -> the goroutine that checks source[index]
    collector,   \* the goroutine that ranges over queue
    parallel     \* where the caller of ParallelFilter is, and what it got

vars == <<inbox, outbox, options, process, exception, exit, workgroup, inboxgroup, work,
          senders, stop, drain, pendings, returned, main, panic,
          processed, failed, handled, forwarded, enqueued, late, stops,
          now, scheduler, event, waiting, closer, events, delivered, errs,
          att, bytes, got,
          srcV, filter, wg, queue, result, checks, collector, parallel>>

\* The variables of package filter.
filterVars == <<srcV, filter, wg, queue, result, checks, collector, parallel>>
\* The state of the other packages of the repository.
elsewhere ==
    <<now, scheduler, event, waiting, closer, events, delivered, errs, att, bytes, got,
      filterVars>>
actorFields == <<inbox, outbox, options, process, exception, exit, workgroup, inboxgroup>>
stopFields == <<stop, drain, pendings, returned>>
history == <<processed, failed, handled, forwarded, enqueued, late, stops>>

Actors == DOMAIN inbox
\* A panic in any goroutine ends the program: nothing runs after it.
Running == panic = NoPanic

\* ------------------------------------------------------------- processors
\* Bale of Test_ActorDirected: return in, nil.
Identity(m) == [result |-> m, err |-> FALSE]
\* The inputs Bane maps (three of the four of the test); any other fails.
BaneMaps(m, last) == m >= 1 /\ m < last
BaneResult(m) == 0 - m
\* Bane of Test_ActorDirected: a mapped string for the inputs it knows,
\* nil and an error by default.
Bane(m, last) ==
    IF BaneMaps(m, last) THEN [result |-> BaneResult(m), err |-> FALSE]
    ELSE [result |-> Nil, err |-> TRUE]
\* Subtitle / the processor of Test_ActorStop: return nil, nil.
Sink(m) == [result |-> Nil, err |-> FALSE]

\* actor.process(w, actor, message) for the processor kind p.
Process(p, m) ==
    CASE p.kind = "identity" -> Identity(m)
      [] p.kind = "bane" -> Bane(m, p.last)
      [] OTHER -> Sink(m)

\* ParallelFilter has not been called.
NoFilter ==
    /\ srcV = <<>>
    /\ filter = {}
    /\ wg = 0
    /\ queue = None
    /\ result = <<>>
    /\ checks = <<>>
    /\ collector = "none"
    /\ parallel = None

\* No scheduler has been made.
NoScheduler ==
    /\ now = 0
    /\ scheduler = None
    /\ event = <<>>
    /\ waiting = <<>>
    /\ closer = "none"
    /\ events = None
    /\ delivered = <<>>
    /\ errs = <<>>
    /\ att = <<>>
    /\ bytes = <<>>
    /\ got = <<>>
\* The packages other than actor are not in use.
Elsewhere == NoScheduler /\ NoFilter

\* ----------------------------------------------------------- construction
configureKeep(w) == w
\* Options.configure: a non-positive worker count becomes 1.
configure(w) == IF w <= 0 THEN 1 ELSE w

startFromZero(idx, num) == idx..(num - 1)
\* actor.start(idx, num): the indices w of the goroutines `go actor.work(w)` it
\* starts, one per recursive call.
RECURSIVE start(_, _)
start(idx, num) == IF idx >= num THEN {} ELSE {idx + 1} \cup start(idx + 1, num)
\* New for every actor of opts (actor -> Options and the two delegates).
Constructed(opts) ==
    /\ inbox = [a \in DOMAIN opts |->
                  [buf |-> <<>>, cap |-> configure(opts[a].Worker), closed |-> FALSE]]
    /\ outbox = [a \in DOMAIN opts |-> opts[a].Output]
    /\ options = [a \in DOMAIN opts |-> [Worker |-> opts[a].Worker, Output |-> opts[a].Output]]
    /\ process = [a \in DOMAIN opts |-> opts[a].p]
    /\ exception = [a \in DOMAIN opts |-> opts[a].e]
    /\ exit = [a \in DOMAIN opts |-> FALSE]
    /\ workgroup = [a \in DOMAIN opts |-> 0]
    /\ inboxgroup = [a \in DOMAIN opts |-> 0]
    /\ work = [a \in DOMAIN opts |->
                 [w \in start(0, configure(opts[a].Worker)) |->
                    [pc |-> "spawned", message |-> Nil, result |-> Nil, err |-> FALSE]]]
    /\ senders = EmptyBag
    /\ stop = [a \in DOMAIN opts |-> "idle"]
    /\ drain = [a \in DOMAIN opts |-> "none"]
    /\ pendings = [a \in DOMAIN opts |-> <<>>]
    /\ returned = [a \in DOMAIN opts |-> <<>>]
    /\ processed = EmptyBag
    /\ failed = EmptyBag
    /\ handled = EmptyBag
    /\ forwarded = EmptyBag
    /\ enqueued = [a \in DOMAIN opts |-> 0]
    /\ late = {}
    /\ stops = [a \in DOMAIN opts |-> 0]
\* The actors of opts, then `script` as the calls the test makes next.
New(opts, script) ==
    /\ Constructed(opts)
    /\ main = script
    /\ panic = NoPanic
    /\ Elsewhere

\* --------------------------------------------------------------- channels
\* A receive can proceed: a value is buffered, or the channel is closed.
Ready(ch) == ch.buf # <<>> \/ ch.closed
\* The value a receive yields: the oldest buffered one, nil once the channel
\* is closed and empty.
Received(ch) == IF ch.buf # <<>> THEN Head(ch.buf) ELSE Nil
AfterReceiveKeep(ch) == ch
\* The channel after a receive: the value received has left the buffer.
AfterReceive(ch) == [ch EXCEPT !.buf = IF @ # <<>> THEN Tail(@) ELSE @]

\* ------------------------------------------------------------- WaitGroup
DoneCounterTwice(v) == v - 2
\* WaitGroup.Done on counter v: the counter goes down by one, and a counter
\* driven below zero panics.
DoneCounter(v) == v - 1
DonePanic(v) == IF DoneCounter(v) < 0 THEN NegativeCounter ELSE NoPanic

\* ----------------------------------------------------------------- Queue
\* What a call Queue(messages...) on actor `a` changes: inboxgroup.Add, then
\* a goroutine that sends the messages one by one. `added` is FALSE for a
\* call that was itself started with `go` and has not run its Add yet.
\* `early` records that the Add ran before Stop passed inboxgroup.Wait().
Waited(a) == stop[a] \in {"close", "return", "returned"}
Sender(a, messages, added) ==
    [to |-> a, rest |-> messages, added |-> added, early |-> added /\ ~Waited(a)]
Lateness(a, messages) ==
    IF stop[a] = "returned" THEN {<<a, messages[i]>> : i \in DOMAIN messages} ELSE {}

\* go actor.Queue(i) of Test_ActorStop: the call is only scheduled.
MainGoQueue ==
    /\ Running
    /\ main # <<>> /\ Head(main).op = "GoQueue"
    /\ senders' = senders (+) One(Sender(Head(main).to, Head(main).messages, FALSE))
    /\ main' = Tail(main)
    /\ UNCHANGED <<actorFields, elsewhere, work, stopFields, panic, history>>

MainQueueBlocking ==
    /\ Running
    /\ main # <<>> /\ Head(main).op = "Queue"
    /\ Len(inbox[Head(main).to].buf) < inbox[Head(main).to].cap
    /\ inboxgroup' = [inboxgroup EXCEPT ![Head(main).to] = @ + Len(Head(main).messages)]
    /\ senders' = senders (+) One(Sender(Head(main).to, Head(main).messages, TRUE))
    /\ late' = late \cup {<<Head(main).to, Head(main).messages[i]>> :
                             i \in {j \in DOMAIN Head(main).messages :
                                       stop[Head(main).to] = "returned"}}
    /\ main' = Tail(main)
    /\ UNCHANGED <<inbox, outbox, options, elsewhere, process, exception, exit, workgroup, work,
                   stopFields, panic, processed, failed, handled, forwarded, enqueued, stops>>
\* actor.Queue(messages...) called by the test function itself.
MainQueue ==
    /\ Running
    /\ main # <<>> /\ Head(main).op = "Queue"
    /\ LET a == Head(main).to
           messages == Head(main).messages IN
        /\ inboxgroup' = [inboxgroup EXCEPT ![a] = @ + Len(messages)]
        /\ senders' = senders (+) One(Sender(a, messages, TRUE))
        /\ late' = late \cup Lateness(a, messages)
    /\ main' = Tail(main)
    /\ UNCHANGED <<inbox, outbox, options, elsewhere, process, exception, exit, workgroup, work,
                   stopFields, panic, processed, failed, handled, forwarded, enqueued, stops>>

\* A scheduled Queue call runs: actor.inboxgroup.Add(len(messages)).
QueueAdd(s) ==
    /\ Running
    /\ BagIn(s, senders) /\ ~s.added
    /\ inboxgroup' = [inboxgroup EXCEPT ![s.to] = @ + Len(s.rest)]
    /\ senders' = (senders (-) One(s)) (+) One(Sender(s.to, s.rest, TRUE))
    /\ late' = late \cup Lateness(s.to, s.rest)
    /\ UNCHANGED <<inbox, outbox, options, elsewhere, process, exception, exit, workgroup, work,
                   stopFields, main, panic, processed, failed, handled,
                   forwarded, enqueued, stops>>

SendClosedDrop(s) ==
    /\ senders' = senders (-) One(s)
    /\ UNCHANGED <<inbox, panic, enqueued>>
\* What a send on a closed channel does.
SendClosed(s) ==
    /\ panic' = SendOnClosed
    /\ UNCHANGED <<inbox, senders, enqueued>>

QueueSendLast(s) ==
    /\ Running
    /\ BagIn(s, senders) /\ s.added /\ s.rest # <<>>
    /\ ~inbox[s.to].closed
    /\ Len(inbox[s.to].buf) < inbox[s.to].cap
    /\ inbox' = [inbox EXCEPT ![s.to].buf = Append(@, s.rest[Len(s.rest)])]
    /\ enqueued' = [enqueued EXCEPT ![s.to] = @ + 1]
    /\ senders' = IF Len(s.rest) = 1 THEN senders (-) One(s)
                  ELSE (senders (-) One(s))
                       (+) One([s EXCEPT !.rest = SubSeq(@, 1, Len(@) - 1)])
    /\ UNCHANGED <<outbox, options, elsewhere, process, exception, exit, workgroup, inboxgroup, work,
                   stopFields, main, panic, processed, failed, handled, forwarded, late,
                   stops>>
QueueSendUnbounded(s) ==
    /\ Running
    /\ BagIn(s, senders) /\ s.added /\ s.rest # <<>>
    /\ ~inbox[s.to].closed
    /\ inbox' = [inbox EXCEPT ![s.to].buf = Append(@, Head(s.rest))]
    /\ enqueued' = [enqueued EXCEPT ![s.to] = @ + 1]
    /\ senders' = IF Tail(s.rest) = <<>> THEN senders (-) One(s)
                  ELSE (senders (-) One(s)) (+) One([s EXCEPT !.rest = Tail(@)])
    /\ UNCHANGED <<outbox, options, elsewhere, process, exception, exit, workgroup, inboxgroup, work,
                   stopFields, main, panic, processed, failed, handled, forwarded, late,
                   stops>>
\* The goroutine of Queue: actor.inbox <- message, for the next message. The
\* send blocks while the buffer is full and panics on a closed channel.
QueueSend(s) ==
    /\ Running
    /\ BagIn(s, senders) /\ s.added /\ s.rest # <<>>
    /\ IF inbox[s.to].closed
       THEN SendClosed(s)
       ELSE /\ Len(inbox[s.to].buf) < inbox[s.to].cap
            /\ inbox' = [inbox EXCEPT ![s.to].buf = Append(@, Head(s.rest))]
            /\ enqueued' = [enqueued EXCEPT ![s.to] = @ + 1]
            /\ senders' = IF Tail(s.rest) = <<>> THEN senders (-) One(s)
                          ELSE (senders (-) One(s)) (+) One([s EXCEPT !.rest = Tail(@)])
            /\ panic' = panic
    /\ UNCHANGED <<outbox, options, elsewhere, process, exception, exit, workgroup, inboxgroup, work,
                   stopFields, main, processed, failed, handled, forwarded, late,
                   stops>>

\* ---------------------------------------------------------------- workers
\* The goroutine started by start() begins to run: actor.workgroup.Add(1).
WorkStart(a, w) ==
    /\ Running
    /\ work[a][w].pc = "spawned"
    /\ workgroup' = [workgroup EXCEPT ![a] = @ + 1]
    /\ work' = [work EXCEPT ![a][w].pc = "select"]
    /\ UNCHANGED <<inbox, outbox, options, elsewhere, process, exception, exit, inboxgroup, senders,
                   stopFields, main, panic, history>>

\* case message := <-actor.inbox, and the call of actor.process on it. A
\* closed and empty channel delivers nil.
WorkReceive(a, w) ==
    /\ Running
    /\ work[a][w].pc = "select"
    /\ Ready(inbox[a])
    /\ LET message == Received(inbox[a])
           r == Process(process[a], message) IN
        /\ work' = [work EXCEPT ![a][w] = [pc |-> "route", message |-> message,
                                           result |-> r.result, err |-> r.err]]
        /\ processed' = processed (+) One(<<a, message>>)
        /\ failed' = IF r.err THEN failed (+) One(<<a, w, message>>) ELSE failed
    /\ inbox' = [inbox EXCEPT ![a] = AfterReceive(@)]
    /\ UNCHANGED <<outbox, options, elsewhere, process, exception, exit, workgroup, inboxgroup, senders,
                   stopFields, main, panic, handled, forwarded, enqueued, late, stops>>

RouteFallThrough(a, err) ==
    (IF err /\ exception[a] THEN {"exception"} ELSE {})
      \cup (IF outbox[a] # None THEN {"outbox"} ELSE {})
RouteDiscard(a, err) == IF err /\ exception[a] THEN {"exception"} ELSE {}
\* What the worker does with the outcome of process, before it flags the
\* message as done: call the exception handler, queue the result to the
\* outbox, or neither.
Route(a, err) ==
    IF err /\ exception[a] THEN {"exception"}
    ELSE IF outbox[a] # None THEN {"outbox"}
    ELSE {}

WorkRoute(a, w) ==
    /\ Running
    /\ work[a][w].pc = "route"
    /\ LET me == work[a][w]
           todo == Route(a, me.err) IN
        /\ handled' = IF "exception" \in todo
                      THEN handled (+) One(<<a, w, me.message>>) ELSE handled
        /\ IF "outbox" \in todo
           THEN /\ inboxgroup' = [inboxgroup EXCEPT ![outbox[a]] = @ + 1]
                /\ senders' = senders (+) One(Sender(outbox[a], <<me.result>>, TRUE))
                /\ forwarded' = forwarded (+) One(<<a, me.message>>)
                /\ late' = late \cup Lateness(outbox[a], <<me.result>>)
           ELSE UNCHANGED <<inboxgroup, senders, forwarded, late>>
    /\ work' = [work EXCEPT ![a][w].pc = "done"]
    /\ UNCHANGED <<inbox, outbox, options, elsewhere, process, exception, exit, workgroup, stopFields,
                   main, panic, processed, failed, enqueued, stops>>

\* A processing function that retries: given one of the messages 1..last it
\* queues the message again on its own actor, marked as the second attempt,
\* and returns nil, nil; given anything else it returns nil, nil.
Retries(p, m) == p.kind = "retry" /\ m >= 1 /\ m <= p.last
Retry(m) == 0 - m
\* The same worker in two steps, for the callers that change the actor while
\* process runs. First the receive and the call: message := <-actor.inbox,
\* actor.process(w, actor, message). `wiredAtDequeue` and `wiredAtReturn`
\* record the outbox of the actor at the receive and at the return of process.
WorkDequeue(a, w) ==
    /\ Running
    /\ work[a][w].pc = "select"
    /\ Ready(inbox[a])
    /\ work' = [work EXCEPT ![a][w] =
                  [pc |-> "process", message |-> Received(inbox[a]), result |-> Nil,
                   err |-> FALSE, wiredAtDequeue |-> outbox[a], wiredAtReturn |-> None]]
    /\ processed' = processed (+) One(<<a, Received(inbox[a])>>)
    /\ inbox' = [inbox EXCEPT ![a] = AfterReceive(@)]
    /\ UNCHANGED <<outbox, options, elsewhere, process, exception, exit, workgroup, inboxgroup, senders,
                   stopFields, main, panic, failed, handled, forwarded, enqueued, late,
                   stops>>

\* result, err := actor.process(...): the processing function returns.
WorkReturn(a, w) ==
    /\ Running
    /\ work[a][w].pc = "process"
    /\ ~Retries(process[a], work[a][w].message)
    /\ LET r == Process(process[a], work[a][w].message) IN
        /\ work' = [work EXCEPT ![a][w].pc = "route", ![a][w].result = r.result,
                                ![a][w].err = r.err, ![a][w].wiredAtReturn = outbox[a]]
        /\ failed' = IF r.err THEN failed (+) One(<<a, w, work[a][w].message>>) ELSE failed
    /\ UNCHANGED <<inbox, outbox, options, elsewhere, process, exception, exit, workgroup, inboxgroup,
                   senders, stopFields, main, panic, processed, handled, forwarded,
                   enqueued, late, stops>>

WorkRetryUncounted(a, w) ==
    /\ Running
    /\ work[a][w].pc = "process"
    /\ Retries(process[a], work[a][w].message)
    /\ senders' = senders (+) One(Sender(a, <<Retry(work[a][w].message)>>, TRUE))
    /\ work' = [work EXCEPT ![a][w].pc = "route", ![a][w].wiredAtReturn = outbox[a]]
    /\ UNCHANGED <<inbox, outbox, options, elsewhere, process, exception, exit, workgroup, inboxgroup,
                   stopFields, main, panic, history>>
\* The retrying processing function runs: actor.Queue(message) on the actor
\* the worker belongs to (inboxgroup.Add(1) and the goroutine that sends),
\* then the return of nil, nil.
WorkRetry(a, w) ==
    /\ Running
    /\ work[a][w].pc = "process"
    /\ Retries(process[a], work[a][w].message)
    /\ inboxgroup' = [inboxgroup EXCEPT ![a] = @ + 1]
    /\ senders' = senders (+) One(Sender(a, <<Retry(work[a][w].message)>>, TRUE))
    /\ late' = late \cup Lateness(a, <<Retry(work[a][w].message)>>)
    /\ work' = [work EXCEPT ![a][w].pc = "route", ![a][w].wiredAtReturn = outbox[a]]
    /\ UNCHANGED <<inbox, outbox, options, elsewhere, process, exception, exit, workgroup,
                   stopFields, main, panic, processed, failed, handled, forwarded,
                   enqueued, stops>>
\* `if actor.outbox != nil` read by a worker while Direct has assigned the
\* field with no synchronisation in between (a data race): the read may still
\* yield the value New stored. With that value nil the result is discarded.
WorkRouteStale(a, w) ==
    /\ Running
    /\ work[a][w].pc = "route"
    /\ ~(work[a][w].err /\ exception[a])
    /\ outbox[a] # options[a].Output
    /\ options[a].Output = None
    /\ work' = [work EXCEPT ![a][w].pc = "done"]
    /\ UNCHANGED <<inbox, outbox, options, elsewhere, process, exception, exit, workgroup, inboxgroup,
                   senders, stopFields, main, panic, history>>
WorkDoneRetry(a, w) ==
    /\ Running
    /\ work[a][w].pc = "done"
    /\ inboxgroup' = [inboxgroup EXCEPT ![a] = DoneCounter(@)]
    /\ panic' = DonePanic(inboxgroup[a])
    /\ inbox' = IF work[a][w].err /\ ~inbox[a].closed
                THEN [inbox EXCEPT ![a].buf = Append(@, work[a][w].message)]
                ELSE inbox
    /\ work' = [work EXCEPT ![a][w] =
                  [pc |-> "select", message |-> Nil, result |-> Nil, err |-> FALSE]]
    /\ UNCHANGED <<outbox, options, elsewhere, process, exception, exit, workgroup, senders,
                   stopFields, main, history>>
\* actor.inboxgroup.Done(), which ends every branch of the receive case.
WorkDone(a, w) ==
    /\ Running
    /\ work[a][w].pc = "done"
    /\ inboxgroup' = [inboxgroup EXCEPT ![a] = DoneCounter(@)]
    /\ panic' = DonePanic(inboxgroup[a])
    /\ work' = [work EXCEPT ![a][w] =
                  [pc |-> "select", message |-> Nil, result |-> Nil, err |-> FALSE]]
    /\ UNCHANGED <<inbox, outbox, options, elsewhere, process, exception, exit, workgroup, senders,
                   stopFields, main, history>>

\* case <-actor.exit: return, and the deferred actor.workgroup.Done().
WorkExit(a, w) ==
    /\ Running
    /\ work[a][w].pc = "select"
    /\ exit[a]
    /\ workgroup' = [workgroup EXCEPT ![a] = DoneCounter(@)]
    /\ panic' = DonePanic(workgroup[a])
    /\ work' = [work EXCEPT ![a][w].pc = "exited"]
    /\ UNCHANGED <<inbox, outbox, options, elsewhere, process, exception, exit, inboxgroup, senders,
                   stopFields, main, history>>

\* ------------------------------------------------------------------ Stop
CloseExitCascade(a) ==
    IF exit[a]
    THEN /\ panic' = CloseOfClosed
         /\ UNCHANGED <<exit, stop>>
    ELSE /\ exit' = [x \in Actors |-> exit[x] \/ x = a \/ x = outbox[a]]
         /\ stop' = [stop EXCEPT ![a] = "workgroup"]
         /\ panic' = panic
CloseExitAgain(a) ==
    /\ exit' = [exit EXCEPT ![a] = TRUE]
    /\ stop' = [stop EXCEPT ![a] = "workgroup"]
    /\ panic' = panic
\* close(actor.exit), the first statement of Stop: closing a closed channel
\* panics.
CloseExit(a) ==
    IF exit[a]
    THEN /\ panic' = CloseOfClosed
         /\ UNCHANGED <<exit, stop>>
    ELSE /\ exit' = [exit EXCEPT ![a] = TRUE]
         /\ stop' = [stop EXCEPT ![a] = "workgroup"]
         /\ panic' = panic

\* The test function calls actor.Stop(); it makes no other call until Stop
\* has returned.
StopBegin ==
    /\ Running
    /\ main # <<>> /\ Head(main).op = "Stop"
    /\ LET a == Head(main).to IN
        /\ stop[a] \in {"idle", "returned"}
        /\ CloseExit(a)
        /\ stops' = [stops EXCEPT ![a] = @ + 1]
    /\ UNCHANGED <<inbox, outbox, options, elsewhere, process, exception, workgroup, inboxgroup, work,
                   senders, drain, pendings, returned, main,
                   processed, failed, handled, forwarded, enqueued, late>>

\* actor.workgroup.Wait() returns, and the drain goroutine is started.
StopWorkgroupWait(a) ==
    /\ Running
    /\ stop[a] = "workgroup"
    /\ workgroup[a] = 0
    /\ stop' = [stop EXCEPT ![a] = "inboxgroup"]
    /\ drain' = [drain EXCEPT ![a] = "range"]
    /\ UNCHANGED <<actorFields, elsewhere, work, senders, pendings, returned, main, panic,
                   history>>

DrainReceivePrepend(a) ==
    /\ Running
    /\ drain[a] = "range"
    /\ inbox[a].buf # <<>>
    /\ pendings' = [pendings EXCEPT ![a] = <<Received(inbox[a])>> \o @]
    /\ inbox' = [inbox EXCEPT ![a] = AfterReceive(@)]
    /\ drain' = [drain EXCEPT ![a] = "done"]
    /\ UNCHANGED <<outbox, options, elsewhere, process, exception, exit, workgroup, inboxgroup, work,
                   senders, stop, returned, main, panic, history>>
DrainReceiveDrop(a) ==
    /\ Running
    /\ drain[a] = "range"
    /\ inbox[a].buf # <<>>
    /\ inbox' = [inbox EXCEPT ![a] = AfterReceive(@)]
    /\ drain' = [drain EXCEPT ![a] = "done"]
    /\ UNCHANGED <<outbox, options, elsewhere, process, exception, exit, workgroup, inboxgroup, work,
                   senders, stop, pendings, returned, main, panic, history>>
\* for message := range actor.inbox { pendings = append(pendings, message)
DrainReceive(a) ==
    /\ Running
    /\ drain[a] = "range"
    /\ inbox[a].buf # <<>>
    /\ pendings' = [pendings EXCEPT ![a] = Append(@, Received(inbox[a]))]
    /\ inbox' = [inbox EXCEPT ![a] = AfterReceive(@)]
    /\ drain' = [drain EXCEPT ![a] = "done"]
    /\ UNCHANGED <<outbox, options, elsewhere, process, exception, exit, workgroup, inboxgroup, work,
                   senders, stop, returned, main, panic, history>>

\* actor.inboxgroup.Done() }
DrainDone(a) ==
    /\ Running
    /\ drain[a] = "done"
    /\ inboxgroup' = [inboxgroup EXCEPT ![a] = DoneCounter(@)]
    /\ panic' = DonePanic(inboxgroup[a])
    /\ drain' = [drain EXCEPT ![a] = "range"]
    /\ UNCHANGED <<inbox, outbox, options, elsewhere, process, exception, exit, workgroup, work,
                   senders, stop, pendings, returned, main, history>>

\* The range loop ends once the channel is closed and empty.
DrainEnd(a) ==
    /\ Running
    /\ drain[a] = "range"
    /\ inbox[a].buf = <<>> /\ inbox[a].closed
    /\ drain' = [drain EXCEPT ![a] = "ended"]
    /\ UNCHANGED <<actorFields, elsewhere, work, senders, stop, pendings, returned, main,
                   panic, history>>

StopInboxgroupNoWait(a) ==
    /\ Running
    /\ stop[a] = "inboxgroup"
    /\ stop' = [stop EXCEPT ![a] = "close"]
    /\ UNCHANGED <<actorFields, elsewhere, work, senders, drain, pendings, returned, main,
                   panic, history>>
\* actor.inboxgroup.Wait() returns.
StopInboxgroupWait(a) ==
    /\ Running
    /\ stop[a] = "inboxgroup"
    /\ inboxgroup[a] = 0
    /\ stop' = [stop EXCEPT ![a] = "close"]
    /\ UNCHANGED <<actorFields, elsewhere, work, senders, drain, pendings, returned, main,
                   panic, history>>

\* close(actor.inbox)
StopClose(a) ==
    /\ Running
    /\ stop[a] = "close"
    /\ inbox' = [inbox EXCEPT ![a].closed = TRUE]
    /\ stop' = [stop EXCEPT ![a] = "return"]
    /\ UNCHANGED <<outbox, options, elsewhere, process, exception, exit, workgroup, inboxgroup, work,
                   senders, drain, pendings, returned, main, panic, history>>

StopReturnReopen(a) ==
    /\ Running
    /\ stop[a] = "return"
    /\ returned' = [returned EXCEPT ![a] = pendings[a]]
    /\ stop' = [stop EXCEPT ![a] = "returned"]
    /\ exit' = [exit EXCEPT ![a] = FALSE]
    /\ main' = Tail(main)
    /\ UNCHANGED <<inbox, outbox, options, elsewhere, process, exception, workgroup, inboxgroup,
                   work, senders, drain, pendings, panic, history>>
\* return pendings: the caller gets the list as it is now, and goes on.
StopReturn(a) ==
    /\ Running
    /\ stop[a] = "return"
    /\ returned' = [returned EXCEPT ![a] = pendings[a]]
    /\ stop' = [stop EXCEPT ![a] = "returned"]
    /\ main' = Tail(main)
    /\ UNCHANGED <<actorFields, elsewhere, work, senders, drain, pendings, panic, history>>

\* ---------------------------------------------------------------- Direct
DirectFirstPair(actors) ==
    [a \in Actors |->
       IF Len(actors) >= 2 /\ a = actors[1] THEN actors[2] ELSE outbox[a]]
\* The loop of Direct from its i-th argument on: `ob` is the outbox of every
\* actor so far, `source` the loop variable (None before the first argument).
RECURSIVE Directing(_, _, _, _)
Directing(ob, source, actors, i) ==
    IF i > Len(actors) THEN ob
    ELSE IF source = None THEN Directing(ob, actors[i], actors, i + 1)
    ELSE Directing([ob EXCEPT ![source] = actors[i]], actors[i], actors, i + 1)
DirectSinkCleared(actors) ==
    IF Len(actors) >= 2
    THEN [Directing(outbox, None, actors, 1) EXCEPT ![actors[Len(actors)]] = None]
    ELSE outbox
\* Direct(actors...): source.outbox = target for each adjacent pair, in order.
Direct(actors) == Directing(outbox, None, actors, 1)

MainDirect ==
    /\ Running
    /\ main # <<>> /\ Head(main).op = "Direct"
    /\ outbox' = Direct(Head(main).actors)
    /\ main' = Tail(main)
    /\ UNCHANGED <<inbox, options, elsewhere, process, exception, exit, workgroup, inboxgroup, work,
                   senders, stopFields, panic, history>>

\* ------------------------------------------------------------- the calls
Call(op, to, messages, actors) ==
    [op |-> op, to |-> to, messages |-> messages, actors |-> actors]
GoQueue(a, m) == Call("GoQueue", a, <<m>>, <<>>)
Queue(a, messages) == Call("Queue", a, messages, <<>>)
Stop(a) == Call("Stop", a, <<>>, <<>>)
Directed(actors) == Call("Direct", None, <<>>, actors)
Batch(n) == [i \in 1..n |-> i]

\* p, e and opt of New.
Options(worker, output, p, e) == [Worker |-> worker, Output |-> output, p |-> p, e |-> e]
bale == [kind |-> "identity", last |-> Nil]
bane(last) == [kind |-> "bane", last |-> last]
subtitle == [kind |-> "sink", last |-> Nil]

\* ------------------------------------------------- goroutines of the package
\* go actor.Queue(i): the call is scheduled, and later runs its Add.
Scheduled ==
    \/ MainGoQueue
    \/ \E s \in BagToSet(senders) : QueueAdd(s)

Goroutines ==
    \/ \E s \in BagToSet(senders) : QueueSend(s)
    \/ \E a \in Actors : \E w \in DOMAIN work[a] : WorkStart(a, w)
    \/ \E a \in Actors : \E w \in DOMAIN work[a] : WorkReceive(a, w)
    \/ \E a \in Actors : \E w \in DOMAIN work[a] : WorkRoute(a, w)
    \/ \E a \in Actors : \E w \in DOMAIN work[a] : WorkDone(a, w)

Stopping ==
    \/ StopBegin
    \/ \E a \in Actors : \E w \in DOMAIN work[a] : WorkExit(a, w)
    \/ \E a \in Actors : StopWorkgroupWait(a)
    \/ \E a \in Actors : DrainReceive(a)
    \/ \E a \in Actors : DrainDone(a)
    \/ \E a \in Actors : DrainEnd(a)
    \/ \E a \in Actors : StopInboxgroupWait(a)
    \/ \E a \in Actors : StopClose(a)
    \/ \E a \in Actors : StopReturn(a)

\* -------------------------------------------------------- Test_ActorStop
\* One actor with NWorker workers; go actor.Queue(i) for i in 1..NMsg, then
\* actor.Stop() at once. The processor fails on the last message, so that
\* both outcomes of process occur.
RECURSIVE GoQueues(_, _, _)
GoQueues(a, i, n) == IF i > n THEN <<>> ELSE <<GoQueue(a, i)>> \o GoQueues(a, i + 1, n)
TestActorStop(n) == GoQueues("A", 1, n) \o <<Stop("A")>>
OptionsStop(n) == [a \in {"A"} |-> Options(NWorker, None, bane(n), TRUE)]

Init == New(OptionsStop(NMsg), TestActorStop(NMsg))
Next == Scheduled \/ Goroutines \/ Stopping
Spec == Init /\ [][Next]_vars

\* ---------------------------------------------------------------- misuse
\* Test_ActorStop with MisuseMsg messages, after which the caller misuses
\* the stopped actor: it calls Stop again, or queues one more message.
Misuses == {<<Stop("A")>>, <<Queue("A", <<MisuseMsg + 1>>)>>}
InitMisuse ==
    \E misuse \in Misuses :
        New(OptionsStop(MisuseMsg), TestActorStop(MisuseMsg) \o misuse)
NextMisuse == Scheduled \/ MainQueue \/ Goroutines \/ Stopping
SpecMisuse == InitMisuse /\ [][NextMisuse]_vars

\* ---------------------------------------------------- Test_ActorDirected
\* Bale, Bane and Subtitle, PipeWorker workers each, all with the exception
\* handler errPrinter; Direct, one Queue of the batch 1..PipeMsg on Bale,
\* then the three Stop calls. Bane fails on the last message of the batch.
Pipeline == <<"A", "B", "C">>
OptionsDirected ==
    [a \in Range(Pipeline) |->
       Options(PipeWorker, None,
               CASE a = "A" -> bale [] a = "B" -> bane(PipeMsg) [] OTHER -> subtitle,
               TRUE)]
TestActorDirected ==
    <<Directed(Pipeline), Queue("A", Batch(PipeMsg)), Stop("A"), Stop("B"), Stop("C")>>
InitDirected == New(OptionsDirected, TestActorDirected)
NextDirected == MainDirect \/ MainQueue \/ Goroutines \/ Stopping
SpecDirected == InitDirected /\ [][NextDirected]_vars

\* ------------------------------------------------- Test_ActionOrchestrate
\* The same pipeline with no Stop call (the test sleeps before it stops):
\* every goroutine that can run does run in the end.
TestActionOrchestrate == <<Directed(Pipeline), Queue("A", Batch(PipeMsg))>>
InitOrchestrate == New(OptionsDirected, TestActionOrchestrate)
NextOrchestrate == MainDirect \/ MainQueue \/ Goroutines
SpecOrchestrate ==
    InitOrchestrate /\ [][NextOrchestrate]_vars /\ WF_vars(NextOrchestrate)

\* ------------------------------------------------- no exception handler
\* A two-actor pipeline whose first actor was built with a nil Exception
\* and fails on the last message of its batch.
OptionsNoHandler ==
    [a \in {"A", "B"} |->
       IF a = "A" THEN Options(PipeWorker, None, bane(PipeMsg), FALSE)
       ELSE Options(PipeWorker, None, subtitle, TRUE)]
TestNoHandler ==
    <<Directed(<<"A", "B">>), Queue("A", Batch(PipeMsg)), Stop("A"), Stop("B")>>
InitNoHandler == New(OptionsNoHandler, TestNoHandler)
SpecNoHandler == InitNoHandler /\ [][NextDirected]_vars

\* ------------------------------------------------------------- the ledger
\* The messages given to the processing function of actor a (a bag).
Given(a) ==
    LET ms == {x[2] : x \in {y \in DOMAIN processed : y[1] = a}} IN
    [m \in ms |-> processed[<<a, m>>]]
\* Calls of process on a that succeeded / failed.
Succeeded(a) ==
    LET g == Given(a) IN SumOver({m \in DOMAIN g : ~Process(process[a], m).err}, g)
Failed(a) ==
    LET g == Given(a) IN SumOver({m \in DOMAIN g : Process(process[a], m).err}, g)
\* Messages counted into inboxgroup by a Queue call so far.
Awaiting(a) ==
    LET mine == {s \in DOMAIN senders : s.to = a /\ s.added} IN
    SumOver(mine, [s \in mine |-> senders[s] * Len(s.rest)])
Added(a) == enqueued[a] + Awaiting(a)
\* Messages whose disposition has been flagged with inboxgroup.Done.
Outstanding(a) ==
    Cardinality({w \in DOMAIN work[a] : work[a][w].pc \in {"process", "route", "done"}})
      + (IF drain[a] = "done" THEN 1 ELSE 0)
Disposed(a) == Size(Given(a)) + Len(pendings[a]) - Outstanding(a)

\* ------------------------------------------------------------------ claims
\* C1: Test_ActorStop. Every message 1..NMsg queued by its own goroutine is,
\* when Stop has returned, either among those given to the processing
\* function or in the list Stop returned: processed + pending = submitted.
C1_NoMessageLost ==
    stop["A"] = "returned" =>
        Given("A") (+) SeqToBag(returned["A"]) = SetToBag(1..NMsg)

\* C2: conservation I1. In every state, for every actor, the messages that
\* entered the inbox are those processed with success, processed with
\* failure, still in the inbox, or gathered as pending; and the inbox is
\* empty once Stop has returned.
C2_Conservation ==
    \A a \in Actors :
        /\ enqueued[a] = Succeeded(a) + Failed(a) + Len(inbox[a].buf) + Len(pendings[a])
        /\ stop[a] = "returned" => inbox[a].buf = <<>>

\* C3: no double accounting. No queued message is both given to the
\* processing function and in the list Stop gathers and returns (nor twice
\* in either).
C3_NoDoubleAccounting ==
    \A a \in Actors : \A m \in 1..NMsg :
        CopiesIn(m, Given(a)) + CopiesIn(m, SeqToBag(pendings[a])) <= 1
C3_Witness ==
    /\ stop["A"] = "returned"
    /\ returned["A"] # <<>>
    /\ \E m \in 1..NMsg : BagIn(m, Given("A"))

\* C4: I2. The inboxgroup counter is never negative; it is the number of
\* messages Queue calls have added minus one per message disposed of
\* (success, failure, drained as pending).
C4_UnacknowledgedCount ==
    \A a \in Actors :
        /\ inboxgroup[a] = Added(a) - Disposed(a)
        /\ inboxgroup[a] >= 0

\* The messages given to the exception handler of actor a (a bag).
Handled(a) ==
    LET mine == {x \in DOMAIN handled : x[1] = a} IN
    [m \in {x[3] : x \in mine} |->
       SumOver({x \in mine : x[3] = m}, [x \in mine |-> handled[x]])]
\* The results of Bane for the inputs of the batch it maps, once each, and
\* the inputs of the batch it fails on.
BaneResults == SetToBag({BaneResult(m) : m \in {i \in 1..PipeMsg : BaneMaps(i, PipeMsg)}})
BaneFailures == SetToBag({i \in 1..PipeMsg : ~BaneMaps(i, PipeMsg)})

\* Subtitle's processor has received exactly Bane's results for the inputs
\* Bane maps, once each, and Bane's exception handler has been called
\* exactly once per input Bane fails on.
C5_Routed == Given("C") = BaneResults /\ Handled("B") = BaneFailures
\* C5: Test_ActionOrchestrate. With no Stop called, the pipeline
\* Direct(A, B, C) fed one batch ends up, and stays, with C having received
\* exactly the results of B's successful inputs and B's exception handler
\* invoked exactly once per failing input.
C5_PipelineRouting == <>[]C5_Routed

\* C6: Test_ActorDirected. Whatever Subtitle's processing function receives
\* is the result of a successful call of Bane's processing function.
C6_SinkReceivesOnlyResults ==
    \A m \in DOMAIN Given("C") :
        \E x \in DOMAIN Given("B") :
            /\ ~Process(process["B"], x).err
            /\ Process(process["B"], x).result = m

\* 1 while worker x[2] of actor x[1] holds the failed message x[3] and has
\* not yet acted on the failure.
Deciding(x) ==
    LET me == work[x[1]][x[2]] IN
    IF me.pc = "route" /\ me.message = x[3] /\ me.err THEN 1 ELSE 0
\* C7: a failed call process(w, actor, message) on an actor with an
\* exception handler is followed by exactly one call of the handler with
\* that w and actor, and its result is not queued to the outbox.
C7_HandlerOncePerFailure ==
    /\ \A x \in DOMAIN handled : BagIn(x, failed)
    /\ \A x \in DOMAIN failed :
        exception[x[1]] =>
            /\ CopiesIn(x, handled) = CopiesIn(x, failed) - Deciding(x)
            /\ ~BagIn(<<x[1], x[3]>>, forwarded)
C7_Witness ==
    \E x \in DOMAIN handled :
        /\ x[1] = "B" /\ outbox["B"] = "C"
        /\ work["B"][x[2]].pc = "select"

\* C8: a failed call of process on an actor without exception handler
\* routes no result to the outbox, and is counted off the inboxgroup like
\* any other disposition.
C8_FailureSwallowed ==
    \A x \in DOMAIN failed :
        ~exception[x[1]] =>
            /\ ~BagIn(<<x[1], x[3]>>, forwarded)
            /\ inboxgroup[x[1]] = Added(x[1]) - Disposed(x[1])

\* C9: a message queued on an actor after its Stop has returned never
\* enters the closed inbox and never vanishes: it stays with its sender,
\* whose send ends the program with a panic.
C9_QueueAfterStopIsFatal ==
    \A x \in late :
        /\ \E s \in DOMAIN senders : s.to = x[1] /\ s.added /\ x[2] \in Range(s.rest)
        /\ x[2] \notin Range(inbox[x[1]].buf)
        /\ x[2] \notin Range(pendings[x[1]])
        /\ ~BagIn(x, processed)
C9_Witness == panic = SendOnClosed /\ <<"A", MisuseMsg + 1>> \in late

\* C10: a second Stop on an actor panics at close(actor.exit): it goes no
\* further and returns no list.
C10_SecondStopIsFatal ==
    \A a \in Actors :
        stops[a] >= 2 => panic = CloseOfClosed /\ stop[a] = "returned"
C10_Witness == stops["A"] = 2 /\ panic = CloseOfClosed

\* ------------------------------------------------------- default worker
\* Test_ActorStop on an actor built with Options.Worker anywhere from
\* -MaxBelow to 1.
Workers == (0 - MaxBelow)..1
OptionsWorker(w, n) == [a \in {"A"} |-> Options(w, None, bane(n), TRUE)]
InitDefault == \E w \in Workers : New(OptionsWorker(w, NMsg), TestActorStop(NMsg))
SpecDefault == InitDefault /\ [][Next]_vars

\* C11: an actor asked for zero or a negative number of workers is the actor
\* asked for one worker: it has exactly one worker, of index 1, and a mailbox
\* of capacity 1 (nothing else of the actor depends on the count asked).
C11_DefaultWorker ==
    \A a \in Actors :
        options[a].Worker <= 1 => DOMAIN work[a] = {1} /\ inbox[a].cap = 1
\* Asked for no worker at all, worker 1 holds a message while the mailbox
\* is full with one more.
C11_Witness ==
    /\ options["A"].Worker <= 0
    /\ work["A"][1].pc = "route"
    /\ Len(inbox["A"].buf) = 1

\* ------------------------------------------------------------- wiring
\* Bale, Bane and Subtitle, each built with the Output an earlier actor can
\* be given as (or none), then one call of Direct on any actors in any order.
Outputs ==
    {out \in [Range(Pipeline) -> Range(Pipeline) \cup {None}] :
        /\ out["A"] = None
        /\ out["B"] \in {None, "A"}
        /\ out["C"] \in {None, "A", "B"}}
Arguments == UNION {[1..n -> Range(Pipeline)] : n \in 0..MaxDirect}
OptionsWire(out) ==
    [a \in Range(Pipeline) |-> Options(PipeWorker, out[a], subtitle, TRUE)]
InitWire ==
    \E out \in Outputs : \E actors \in Arguments :
        New(OptionsWire(out), <<Directed(actors)>>)
NextWire == MainDirect
SpecWire == InitWire /\ [][NextWire]_vars

\* The call of Direct is made in this step.
DirectReturns == main # <<>> /\ Head(main).op = "Direct" /\ main' = Tail(main)
\* The places of actor a among all arguments of Direct but the last.
Sources(a, actors) == {i \in 1..(Len(actors) - 1) : actors[i] = a}
LastSource(a, actors) ==
    CHOOSE i \in Sources(a, actors) : \A j \in Sources(a, actors) : j <= i

\* C12 as stated: after Direct(a1, ..., an) the outbox of ai is a(i+1) for
\* every i < n and the last actor has no outbox, whatever the outboxes were
\* before; with zero or one argument nothing changes.
C12_LastIsSink ==
    [][DirectReturns =>
        LET actors == Head(main).actors
            n == Len(actors) IN
        /\ n >= 2 => /\ \A i \in 1..(n - 1) : outbox'[actors[i]] = actors[i + 1]
                      /\ outbox'[actors[n]] = None
        /\ n <= 1 => outbox' = outbox]_vars

\* C12, amended: after Direct(a1, ..., an) every actor that occurs among
\* a1..a(n-1) has as outbox the argument that follows its last such
\* occurrence (a(i+1) for ai when the arguments are distinct), and every other
\* actor, the last argument included, keeps the outbox it had before the call;
\* with zero or one argument nothing changes.
C12_DirectWires ==
    [][DirectReturns =>
        LET actors == Head(main).actors IN
        \A a \in Actors :
            outbox'[a] = IF Sources(a, actors) = {} THEN outbox[a]
                         ELSE actors[LastSource(a, actors) + 1]]_vars
\* Direct(A, B, C) has returned on a Subtitle that was built with Output A:
\* A and B are wired and Subtitle still sends to A.
C12_Witness ==
    /\ main = <<>>
    /\ options = [a \in Range(Pipeline) |->
                    [Worker |-> PipeWorker, Output |-> IF a = "C" THEN "A" ELSE None]]
    /\ outbox = [a \in Range(Pipeline) |->
                   CASE a = "A" -> "B" [] a = "B" -> "C" [] OTHER -> "A"]

\* ------------------------------------------------------------ two Queues
\* One actor of 1..NWorker workers; the caller queues the batch 1..NMsg in
\* one call (at least as many messages as the mailbox holds), then one more
\* message in a second call. Nothing stops the actor.
TestTwoQueues(n) == <<Queue("A", Batch(n)), Queue("A", <<n + 1>>)>>
InitQueue ==
    \E w \in 1..NWorker : New(OptionsWorker(w, NMsg), TestTwoQueues(NMsg))
NextQueue == MainQueue \/ Goroutines
SpecQueue == InitQueue /\ [][NextQueue]_vars

Full(ch) == Len(ch.buf) >= ch.cap

\* C13: a call of Queue never waits: whenever the caller is about to call
\* Queue the call can be made (it adds to the count and returns), whatever
\* the mailbox holds and whatever the workers do; the goroutine that inserts
\* is the one that cannot go on while the mailbox is full.
C13_QueueNeverBlocks ==
    /\ (Running /\ main # <<>> /\ Head(main).op = "Queue") => ENABLED MainQueue
    /\ \A s \in BagToSet(senders) :
         (s.added /\ s.rest # <<>> /\ Full(inbox[s.to]) /\ ~inbox[s.to].closed)
             => ~ENABLED QueueSend(s)
\* The second Queue call has returned, its message counted but not inserted,
\* while the mailbox was full and no worker had started to receive.
C13_Witness ==
    /\ main = <<>>
    /\ Full(inbox["A"])
    /\ \A w \in DOMAIN work["A"] : work["A"][w].pc = "spawned"
    /\ BagIn(Sender("A", <<NMsg + 1>>, TRUE), senders)
    /\ inboxgroup["A"] = NMsg + 1

\* How far message m of the first Queue call has come: 0 once a worker has
\* taken it and called process, its place in the mailbox while it is there,
\* a place behind the whole mailbox while the Queue goroutine still holds it.
Place(a, m) ==
    IF \E i \in DOMAIN inbox[a].buf : inbox[a].buf[i] = m
    THEN CHOOSE i \in DOMAIN inbox[a].buf : inbox[a].buf[i] = m
    ELSE IF BagIn(<<a, m>>, processed) THEN 0
    ELSE inbox[a].cap + m
\* process is called on message m in this step.
Invoked(a, m) == CopiesIn(<<a, m>>, processed') > CopiesIn(<<a, m>>, processed)

\* C14: the messages of one Queue call enter the mailbox in the order of the
\* arguments (an earlier argument is never behind a later one, in the mailbox
\* or on the way to it), and an actor with a single worker calls process on
\* them in that order.
C14_ArgumentOrder ==
    /\ [](\A m \in 1..NMsg : \A n \in (m + 1)..NMsg :
            Place("A", m) <= Place("A", n) /\ (Place("A", m) = Place("A", n) => Place("A", n) = 0))
    /\ [][\A n \in 1..NMsg :
            (Invoked("A", n) /\ DOMAIN work["A"] = {1})
                => \A m \in 1..(n - 1) : BagIn(<<"A", m>>, processed)]_vars
\* The single worker has been given the whole batch of the first Queue call,
\* the second call not made yet.
C14_Witness ==
    /\ DOMAIN work["A"] = {1}
    /\ Len(main) = 1
    /\ \A m \in 1..NMsg : BagIn(<<"A", m>>, processed)

\* Stop on actor a has passed workgroup.Wait() (its drain reader runs).
Draining(a) == stop[a] \in {"inboxgroup", "close", "return", "returned"}

\* C15: once Stop has passed its first barrier, every worker of the actor has
\* exited: none is still to start, waits in its select or holds a message.
C15_WorkersExitedAtDrain ==
    \A a \in Actors : Draining(a) => \A w \in DOMAIN work[a] : work[a][w].pc = "exited"

\* C16: the count of an actor is the number of its messages that wait for
\* their insertion (counted by Queue, not sent yet), are in the mailbox, or
\* were taken from it and have not been flagged done; so it is never below
\* the number of messages in the mailbox.
C16_CountCoversMailbox ==
    \A a \in Actors :
        /\ inboxgroup[a] = Awaiting(a) + Len(inbox[a].buf) + Outstanding(a)
        /\ inboxgroup[a] >= Len(inbox[a].buf)

\* Message m has been counted by the Add of its Queue call on actor a.
Counted(a, m) ==
    /\ \A i \in DOMAIN main : main[i].op = "GoQueue" => main[i].messages # <<m>>
    /\ \A s \in BagToSet(senders) : (s.to = a /\ ~s.added) => m \notin Range(s.rest)
IsPrefix(s, t) == Len(s) <= Len(t) /\ SubSeq(t, 1, Len(s)) = s

\* C17: a Queue call that ran its Add before Stop passed its second barrier
\* never sends to the closed mailbox; when Stop passes the barrier, every
\* message counted so far has been given to process or gathered as pending;
\* and what is gathered then is in the list Stop returns.
C17_CountedBeforeBarrier ==
    /\ [](\A s \in BagToSet(senders) :
            (s.early /\ s.rest # <<>>) => ~inbox[s.to].closed)
    /\ [][\A a \in Actors :
            (stop[a] = "inboxgroup" /\ stop'[a] = "close") =>
                \A m \in 1..NMsg :
                    Counted(a, m) =>
                        BagIn(<<a, m>>, processed) \/ m \in Range(pendings[a])]_vars
    /\ [][\A a \in Actors :
            /\ Waited(a) => IsPrefix(pendings[a], pendings'[a])
            /\ (stop[a] = "return" /\ stop'[a] = "returned") => returned'[a] = pendings[a]]_vars
\* Stop has returned; both messages were counted before its second barrier,
\* one was given to a worker and the other, inserted while the drain ran, is
\* in the returned list.
C17_Witness ==
    /\ stop["A"] = "returned"
    /\ senders = EmptyBag
    /\ late = {}
    /\ returned["A"] # <<>>
    /\ processed # EmptyBag
    /\ Given("A") (+) SeqToBag(returned["A"]) = SetToBag(1..NMsg)

\* C18: once Stop has returned the actor is Stopped for good: its mailbox is
\* empty and closed, no worker is counted in the workgroup and no message in
\* the inboxgroup.
C18_StoppedIsTerminal ==
    \A a \in Actors :
        stop[a] = "returned" =>
            /\ inbox[a].buf = <<>> /\ inbox[a].closed
            /\ workgroup[a] = 0
            /\ inboxgroup[a] = 0

\* The lifecycle of actor a as the progress of Stop: Running until Stop is
\* called, Stopping while Stop runs, Stopped once Stop has returned.
Lifecycle(a) ==
    CASE stop[a] = "idle" -> "Running"
      [] stop[a] = "returned" -> "Stopped"
      [] OTHER -> "Stopping"
Later(from, to) ==
    \/ from = to
    \/ from = "Running" /\ to = "Stopping"
    \/ from = "Stopping" /\ to = "Stopped"

\* C19: every actor starts Running; it is past Running exactly when its exit
\* channel is closed (cancellation broadcast); it only ever moves from
\* Running to Stopping and from Stopping to Stopped, and is Stopped with its
\* mailbox closed; a closed exit channel or mailbox never reopens.
C19_LifecycleMonotone ==
    /\ \A a \in Actors : Lifecycle(a) = "Running"
    /\ [](\A a \in Actors :
            /\ exit[a] <=> Lifecycle(a) # "Running"
            /\ Lifecycle(a) = "Stopped" => inbox[a].closed)
    /\ [][\A a \in Actors :
            /\ Later(Lifecycle(a), Lifecycle(a)')
            /\ exit[a] => exit'[a]
            /\ inbox[a].closed => inbox'[a].closed]_vars
\* The actor is Stopped and the caller is about to misuse it.
C19_Witness ==
    /\ Lifecycle("A") = "Stopped"
    /\ Running
    /\ Len(main) = 1

\* The workers of actor a whose call of process on message m failed.
FailedBy(a, m) == {w \in DOMAIN work[a] : BagIn(<<a, w, m>>, failed)}
\* Message m is in the mailbox of a, or on its way to it.
Pending(a, m) ==
    \/ m \in Range(inbox[a].buf)
    \/ \E s \in BagToSet(senders) : s.to = a /\ m \in Range(s.rest)

\* C20: every queued message is given to process at most once, by one worker;
\* a message on which process failed is neither in the mailbox nor on its way
\* to it again (no retry).
C20_AtMostOnce ==
    \A a \in Actors : \A m \in 1..NMsg :
        /\ CopiesIn(<<a, m>>, processed) <= 1
        /\ Cardinality(FailedBy(a, m)) <= 1
        /\ FailedBy(a, m) # {} => ~Pending(a, m)
\* process has failed on the last message, the handler was called, and the
\* worker is back in its select with the other message processed as well.
C20_Witness ==
    /\ FailedBy("A", NMsg) # {}
    /\ Size(handled) = 1
    /\ \A m \in 1..NMsg : BagIn(<<"A", m>>, processed)
    /\ \A w \in DOMAIN work["A"] : work["A"][w].pc \in {"select", "exited"}

\* Worker w of actor a leaves the step named `from` for the step named `to`.
Moves(a, w, from, to) == work[a][w].pc = from /\ work'[a][w].pc = to

\* C21: a worker whose call of process succeeded, on an actor with an outbox,
\* queues exactly one message, the result, to the outbox (the count of the
\* outbox goes up by one and nothing else is counted) while its own count is
\* still to be decremented; with no outbox it queues nothing; its next step
\* decrements the count of its own actor by one and nothing else.
C21_ForwardThenDone ==
    /\ [][\A a \in Actors : \A w \in DOMAIN work[a] :
            (Moves(a, w, "route", "done") /\ ~work[a][w].err) =>
                IF outbox[a] # None
                THEN /\ inboxgroup' = [inboxgroup EXCEPT ![outbox[a]] = @ + 1]
                     /\ \E s \in BagToSet(senders') :
                           /\ s.to = outbox[a] /\ s.added
                           /\ s.rest = <<work[a][w].result>>
                           /\ senders' = senders (+) One(s)
                ELSE inboxgroup' = inboxgroup /\ senders' = senders]_vars
    /\ [][\A a \in Actors : \A w \in DOMAIN work[a] :
            Moves(a, w, "done", "select") =>
                /\ inboxgroup' = [inboxgroup EXCEPT ![a] = @ - 1]
                /\ senders' = senders]_vars
\* Bane has queued the result of message 1 to Subtitle and has not flagged
\* message 1 as done yet: Subtitle counts one message, Bane still counts its own.
C21_Witness ==
    /\ work["B"][1].pc = "done" /\ work["B"][1].message = 1
    /\ inboxgroup["C"] = 1
    /\ inboxgroup["B"] >= 1
    /\ BagIn(<<"B", 1>>, forwarded)

\* The worker indices the handlers of actor a were called with: those of the
\* workers that hold a message given to process, and those logged with a
\* failure or a call of the exception handler.
CalledWith(a) ==
    {w \in DOMAIN work[a] : work[a][w].pc \in {"route", "done"}}
      \cup {x[2] : x \in {y \in DOMAIN failed \cup DOMAIN handled : y[1] = a}}

\* C22: an actor built for n >= 1 workers has exactly the workers 1..n, and
\* process and the exception handler are only called with an index in 1..n
\* (and only for an actor that exists).
C22_WorkerIndices ==
    /\ \A a \in Actors :
        options[a].Worker >= 1 =>
            /\ DOMAIN work[a] = 1..options[a].Worker
            /\ CalledWith(a) \subseteq 1..options[a].Worker
    /\ \A x \in DOMAIN processed : x[1] \in Actors
    /\ \A x \in DOMAIN failed \cup DOMAIN handled : x[1] \in Actors
\* Of NWorker workers the last one has failed on a message and called the
\* exception handler with its own index.
C22_Witness ==
    /\ options["A"].Worker = NWorker
    /\ \E m \in 1..(NMsg + 1) : BagIn(<<"A", NWorker, m>>, handled)

\* --------------------------------------------------------- Queue, then Stop
\* One actor asked for -MaxBelow..NWorker workers; right after New the caller
\* queues 1..NMsg+1 in one call (more than the mailbox holds), then calls
\* Stop. process fails on the last two messages.
TestQueueStop(n) == <<Queue("A", Batch(n)), Stop("A")>>
InitQueueStop ==
    \E w \in (0 - MaxBelow)..NWorker :
        New(OptionsWorker(w, NMsg), TestQueueStop(NMsg + 1))
NextQueueStop == MainQueue \/ Goroutines \/ Stopping
SpecQueueStop == InitQueueStop /\ [][NextQueueStop]_vars

\* The worker count of actor a after the default is applied.
Normalized(a) == IF options[a].Worker >= 1 THEN options[a].Worker ELSE 1

\* C23: the mailbox of an actor never holds more messages than the actor has
\* workers (one for a non-positive count asked), and the goroutine that
\* inserts cannot go on while the mailbox holds that many.
C23_MailboxBounded ==
    \A a \in Actors :
        /\ Cardinality(DOMAIN work[a]) = Normalized(a)
        /\ Len(inbox[a].buf) <= Normalized(a)
        /\ \A s \in BagToSet(senders) :
             (s.to = a /\ s.added /\ s.rest # <<>>
                /\ Len(inbox[a].buf) = Normalized(a) /\ ~inbox[a].closed)
                 => ~ENABLED QueueSend(s)
\* An actor asked for no worker: the drain reader of Stop has taken a message
\* from the full mailbox, the sender has filled it again and waits once more.
C23_Witness ==
    /\ options["A"].Worker <= 0
    /\ Len(pendings["A"]) = 1
    /\ Len(inbox["A"].buf) = 1
    /\ \E s \in BagToSet(senders) : s.rest # <<>>

\* C24: messages queued right after New, whether or not a worker has started
\* yet, are not lost: once Stop has closed the mailbox each of them has been
\* given to process or gathered as pending, one or the other and once, and
\* what Stop returns is what it gathered.
C24_QueuedBeforeWorkers ==
    /\ inbox["A"].closed =>
         \A m \in 1..(NMsg + 1) :
            CopiesIn(<<"A", m>>, processed) + CopiesIn(m, SeqToBag(pendings["A"])) = 1
    /\ stop["A"] = "returned" => returned["A"] = pendings["A"]
\* Stop has returned the whole batch while no worker has ever started.
C24_Witness ==
    /\ stop["A"] = "returned"
    /\ \A w \in DOMAIN work["A"] : work["A"][w].pc = "spawned"
    /\ returned["A"] = Batch(NMsg + 1)

\* ------------------------------------------------------- upstream first
\* Bane (fails on the last message of its batch) directed to Subtitle; the
\* batch 1..PipeMsg is queued to Bane, Bane is stopped, then one more message
\* is queued to Subtitle directly, and Subtitle is stopped.
Upstream == <<"A", "B">>
OptionsUpstream ==
    [a \in Range(Upstream) |->
       Options(PipeWorker, None, IF a = "A" THEN bane(PipeMsg) ELSE subtitle, TRUE)]
TestUpstreamFirst ==
    <<Directed(Upstream), Queue("A", Batch(PipeMsg)), Stop("A"),
      Queue("B", <<PipeMsg + 1>>), Stop("B")>>
InitUpstream == New(OptionsUpstream, TestUpstreamFirst)
SpecUpstream == InitUpstream /\ [][NextDirected]_vars

\* Stop on actor a, or its drain reader, takes a step.
StopStep(a) == stop'[a] # stop[a] \/ drain'[a] # drain[a] \/ pendings'[a] # pendings[a]
\* Everything of actor b is as it was.
Untouched(b) ==
    /\ inbox'[b] = inbox[b] /\ outbox'[b] = outbox[b] /\ exit'[b] = exit[b]
    /\ workgroup'[b] = workgroup[b] /\ inboxgroup'[b] = inboxgroup[b]
    /\ work'[b] = work[b]
    /\ stop'[b] = stop[b] /\ drain'[b] = drain[b] /\ pendings'[b] = pendings[b]

\* C25: no step of Stop on an actor changes anything of another actor, its
\* outbox included; an actor on which Stop was not called has its exit channel
\* and its mailbox open whatever was stopped upstream, and a Queue call on it
\* can be made.
C25_StopLeavesOutbox ==
    /\ [][\A a \in Actors : \A b \in Actors \ {a} : StopStep(a) => Untouched(b)]_vars
    /\ [](\A b \in Actors :
            stop[b] = "idle" =>
                /\ ~exit[b] /\ ~inbox[b].closed
                /\ (Running /\ main # <<>> /\ Head(main).op = "Queue" /\ Head(main).to = b)
                     => ENABLED MainQueue)
\* Bane is stopped; Subtitle, not stopped, has processed the message that was
\* queued to it after Bane's Stop returned.
C25_Witness ==
    /\ stop["A"] = "returned"
    /\ stop["B"] = "idle"
    /\ BagIn(<<"B", PipeMsg + 1>>, processed)
    /\ Running

\* ----------------------------------------------------------- late Direct
\* Test_OrderAsAggregateRoot: the batch is queued to the root actor first and
\* only then is the root directed to the waiter; nothing is stopped. The
\* root is an identity processor here, the waiter returns nil, nil.
OptionsLateDirect ==
    [a \in Range(Upstream) |->
       Options(PipeWorker, None, IF a = "A" THEN bale ELSE subtitle, TRUE)]
TestLateDirect == <<Queue("A", Batch(PipeMsg)), Directed(Upstream)>>
InitLateDirect == New(OptionsLateDirect, TestLateDirect)
\* The workers run in the finer steps, and their reads of outbox race with
\* the assignment Direct makes.
NextLateDirect ==
    \/ MainQueue
    \/ MainDirect
    \/ \E s \in BagToSet(senders) : QueueSend(s)
    \/ \E a \in Actors : \E w \in DOMAIN work[a] : WorkStart(a, w)
    \/ \E a \in Actors : \E w \in DOMAIN work[a] : WorkDequeue(a, w)
    \/ \E a \in Actors : \E w \in DOMAIN work[a] : WorkReturn(a, w)
    \/ \E a \in Actors : \E w \in DOMAIN work[a] : WorkRoute(a, w)
    \/ \E a \in Actors : \E w \in DOMAIN work[a] : WorkRouteStale(a, w)
    \/ \E a \in Actors : \E w \in DOMAIN work[a] : WorkDone(a, w)
SpecLateDirect ==
    InitLateDirect /\ [][NextLateDirect]_vars /\ WF_vars(NextLateDirect)

\* C26 as stated, in the strongest form a temporal formula gives it: with the
\* batch queued before Direct, the count of the downstream actor goes negative.
C26_DirectDoubleCounts == <>(inboxgroup["B"] < 0)

\* C26, amended: Direct applied after the batch was queued never drives a
\* count negative: the downstream actor counts exactly the results forwarded
\* to it (its count is what waits to be inserted, is in its mailbox or is in
\* the hands of its workers), one per message the upstream actor forwarded;
\* the results of messages processed before Direct are not forwarded at all.
C26_LateDirectCountsOnce ==
    /\ \A a \in Actors : inboxgroup[a] >= 0
    /\ inboxgroup["B"] = Awaiting("B") + Len(inbox["B"].buf) + Outstanding("B")
    /\ Awaiting("B") + enqueued["B"] = Size(forwarded)
    /\ \A m \in 1..PipeMsg : CopiesIn(<<"A", m>>, forwarded) <= CopiesIn(<<"A", m>>, processed)
    /\ Size(forwarded) <= PipeMsg
\* The root has processed the whole batch before Direct assigned its outbox:
\* every result was discarded and the waiter has been given nothing.
C26_Witness ==
    /\ main = <<>>
    /\ outbox["A"] = "B"
    /\ \A m \in 1..PipeMsg : BagIn(<<"A", m>>, processed)
    /\ \A w \in DOMAIN work["A"] : work["A"][w].pc = "select"
    /\ forwarded = EmptyBag
    /\ inboxgroup = [a \in Actors |-> 0]

\* The messages of list s are in the order of the arguments of the Queue
\* call (the batch 1, 2, ...), none of them twice.
InArgumentOrder(s) == \A i \in DOMAIN s : \A j \in DOMAIN s : i < j => s[i] < s[j]

\* C27: the list Stop gathers and the list it returns hold the pending
\* messages of the Queue call in the order of its arguments, each once.
C27_PendingsInOrder ==
    \A a \in Actors : InArgumentOrder(pendings[a]) /\ InArgumentOrder(returned[a])
\* Stop has returned two or more messages and a worker was given another one.
C27_Witness ==
    /\ stop["A"] = "returned"
    /\ Len(returned["A"]) >= NMsg
    /\ \E m \in 1..(NMsg + 1) : BagIn(<<"A", m>>, processed)

\* Queue, then Stop, with the Go scheduler's fairness: a goroutine that can
\* take its next step does take it (a worker whose select has both cases
\* ready takes either).
FairWorker(w) ==
    /\ WF_vars(w \in DOMAIN work["A"] /\ WorkStart("A", w))
    /\ WF_vars(w \in DOMAIN work["A"] /\ (WorkReceive("A", w) \/ WorkExit("A", w)))
    /\ WF_vars(w \in DOMAIN work["A"] /\ WorkRoute("A", w))
    /\ WF_vars(w \in DOMAIN work["A"] /\ WorkDone("A", w))
FairQueueStop ==
    /\ WF_vars(MainQueue)
    /\ WF_vars(\E s \in BagToSet(senders) : QueueSend(s))
    /\ \A w \in 1..NWorker : FairWorker(w)
    /\ WF_vars(StopBegin)
    /\ WF_vars(StopWorkgroupWait("A"))
    /\ WF_vars(DrainReceive("A"))
    /\ WF_vars(DrainDone("A"))
    /\ WF_vars(DrainEnd("A"))
    /\ WF_vars(StopInboxgroupWait("A"))
    /\ WF_vars(StopClose("A"))
    /\ WF_vars(StopReturn("A"))
SpecQueueStopFair == InitQueueStop /\ [][NextQueueStop]_vars /\ FairQueueStop

\* C28: with a finite batch queued and every handler returning, the call of
\* Stop returns in the end.
C28_StopTerminates == <>(stop["A"] = "returned")

\* How often message m of the batch queued to Bale is accounted for, along
\* Bale and Bane: in the list Bale's Stop returned, given to Bane's process,
\* or in the list Bane's Stop returned.
Accounted(m) ==
    CopiesIn(m, SeqToBag(returned["A"])) + CopiesIn(<<"B", m>>, processed)
      + CopiesIn(m, SeqToBag(returned["B"]))

\* C29: Test_ActorDirected stops upstream first. Once Bane's Stop has returned
\* every message queued to Bale is accounted for exactly once (returned by
\* Bale's Stop, processed by Bane, or returned by Bane's Stop), and no
\* message forwarded by Bale is ever sent to Bane's closed mailbox.
C29_UpstreamFirst ==
    /\ stop["B"] = "returned" => \A m \in 1..PipeMsg : Accounted(m) = 1
    /\ ~(\E s \in BagToSet(senders) : s.to = "B" /\ s.rest # <<>> /\ inbox["B"].closed)

\* C30: once Stop has returned on an actor, no worker of it receives from the
\* mailbox and calls process again, and its exception handler is not called
\* again.
C30_QuietAfterStop ==
    [][\A a \in Actors :
        stop[a] = "returned" =>
            /\ \A w \in DOMAIN work[a] : ~Moves(a, w, "select", "route")
            /\ \A x \in DOMAIN handled' :
                 x[1] = a => CopiesIn(x, handled') = CopiesIn(x, handled)]_vars

\* ------------------------------------------------------------------ retry
\* One actor whose processing function retries each message of the batch
\* once; the batch is queued and the actor stopped at once.
RetryWorker == 2
RetryMsg == 2
retrying(last) == [kind |-> "retry", last |-> last]
OptionsRetry == [a \in {"A"} |-> Options(RetryWorker, None, retrying(RetryMsg), TRUE)]
InitRetry == New(OptionsRetry, TestQueueStop(RetryMsg))
NextRetry ==
    \/ MainQueue
    \/ \E s \in BagToSet(senders) : QueueSend(s)
    \/ \E a \in Actors : \E w \in DOMAIN work[a] : WorkStart(a, w)
    \/ \E a \in Actors : \E w \in DOMAIN work[a] : WorkDequeue(a, w)
    \/ \E a \in Actors : \E w \in DOMAIN work[a] : WorkRetry(a, w)
    \/ \E a \in Actors : \E w \in DOMAIN work[a] : WorkReturn(a, w)
    \/ \E a \in Actors : \E w \in DOMAIN work[a] : WorkRoute(a, w)
    \/ \E a \in Actors : \E w \in DOMAIN work[a] : WorkDone(a, w)
    \/ Stopping
SpecRetry == InitRetry /\ [][NextRetry]_vars
\* The processing function has queued the retry of message m.
Retried(m) ==
    /\ BagIn(<<"A", m>>, processed)
    /\ ~\E w \in DOMAIN work["A"] :
          work["A"][w].pc = "process" /\ work["A"][w].message = m
\* Where message x is: waiting to be sent to the mailbox, in the mailbox, given
\* to the processing function, gathered by Stop.
Unsent(x) ==
    LET mine == {s \in DOMAIN senders : s.to = "A" /\ x \in Range(s.rest)} IN
    SumOver(mine, [s \in mine |-> senders[s]])
Mailed(x) == Cardinality({i \in DOMAIN inbox["A"].buf : inbox["A"].buf[i] = x})
Settled(x) == CopiesIn(<<"A", x>>, processed) + CopiesIn(x, SeqToBag(pendings["A"]))
\* Message x is still in the hands of a worker or of the drain of Stop, its
\* inboxgroup.Done() not yet called.
InHand(x) ==
    \/ \E w \in DOMAIN work["A"] :
          work["A"][w].pc \in {"process", "route", "done"} /\ work["A"][w].message = x
    \/ drain["A"] = "done" /\ pendings["A"] # <<>>
          /\ pendings["A"][Len(pendings["A"])] = x

\* C32: a message the processing function queues again on its own actor is
\* not lost. It is at exactly one place (waiting to be sent, in the mailbox,
\* processed, or gathered by Stop); Stop does not pass inboxgroup.Wait()
\* before it has been processed or gathered and flagged as done; and when Stop
\* has returned it is either processed or in the list Stop returned.
C32_RetryNotLost ==
    \A m \in 1..RetryMsg :
        Retried(m) =>
            /\ Unsent(Retry(m)) + Mailed(Retry(m)) + Settled(Retry(m)) = 1
            /\ Waited("A") => Settled(Retry(m)) = 1 /\ ~InHand(Retry(m))
            /\ stop["A"] = "returned" =>
                 CopiesIn(<<"A", Retry(m)>>, processed)
                   + CopiesIn(Retry(m), SeqToBag(returned["A"])) = 1
\* Stop has returned the retry of one message, queued while the caller of
\* Stop waited, and the retry of another message was processed.
C32_Witness ==
    /\ stop["A"] = "returned"
    /\ \E m \in 1..RetryMsg : Retry(m) \in Range(returned["A"])
    /\ \E m \in 1..RetryMsg : BagIn(<<"A", Retry(m)>>, processed)
\* C31: Test_OrderAsAggregateRoot queues the batch and then directs the root
\* to the waiter. A worker of the root that received its message before
\* Direct, and whose processing function returned without an error after
\* Direct had returned, forwards the result to the waiter; a worker that
\* dealt with its result while the root had no outbox yet forwards nothing.
C31_ForwardedAfterDirect ==
    [][\A w \in DOMAIN work["A"] :
         (Moves("A", w, "route", "done") /\ ~work["A"][w].err) =>
            LET x == <<"A", work["A"][w].message>> IN
            /\ (work["A"][w].wiredAtDequeue = None /\ work["A"][w].wiredAtReturn = "B")
                  => CopiesIn(x, forwarded') = CopiesIn(x, forwarded) + 1
            /\ outbox["A"] = None => forwarded' = forwarded]_vars

\* ================================================================ scheduler
\* Events scheduled by the test, ticks of the clock per second, and the last
\* tick the clock reaches.
NEvent == 4
Ticks == 2
MaxTime == 4
\* make(chan *Event, 3)
PendingsBuffer == 3

\* A datetime string that is not RFC3339; every other datetime is written in
\* whole seconds, as time.Format(time.RFC3339) writes it.
Invalid == 0 - 1
ErrEventInPast == "Event datetime is in the past"
ErrTimeInvalid == "Datetime format is not in RFC3339"
NoError == "nil"
Unscheduled == "not passed to Schedule"

\* An Attachment: its Name, and its Body, a slice of bytes, which is the
\* address of its array in `bytes` (Nil for a nil slice).
Attachment(name, body) == [Name |-> name, Body |-> body]
\* NewEvent(d, given): the attachments are copied element by element into a new
\* slice.
NewEvent(d, given) ==
    [datetime |-> d, attachments |-> [i \in 1..Len(given) |-> given[i]]]
\* Event.Date(): time.Parse(time.RFC3339, e.datetime), as a time in ticks.
Date(e) ==
    IF e.datetime = Invalid THEN [date |-> 0, err |-> TRUE]
    ELSE [date |-> e.datetime * Ticks, err |-> FALSE]
\* Time.Unix(): the seconds, the fraction cut.
Unix(t) == t \div Ticks

\* scheduler.New(d)
NewScheduler(d) ==
    [delegate |-> d, stop |-> FALSE,
     pendings |-> [buf |-> <<>>, cap |-> PendingsBuffer, closed |-> FALSE], wg |-> 0]

\* The calls of the test on the scheduler.
Schedule(e) == [op |-> "Schedule", e |-> e]
SchedulerStop == [op |-> "Scheduler.Stop"]

\* The variables of package actor, left alone by the scheduler.
actorVars == <<actorFields, work, senders, stopFields, history>>
\* The events, and the memory they share with their makers.
memory == <<event, att, bytes, got>>

\* Time passes.
Tick ==
    /\ Running
    /\ now < MaxTime
    /\ now' = now + 1
    /\ UNCHANGED <<actorVars, filterVars, main, panic, scheduler, memory, waiting, closer, events,
                   delivered, errs>>

ValidateBefore(e) ==
    IF Date(event[e]).err THEN ErrTimeInvalid
    ELSE IF Unix(Date(event[e]).date) < Unix(now) THEN ErrEventInPast
    ELSE NoError
\* What Schedule(e) returns.
Validate(e) ==
    IF Date(event[e]).err THEN ErrTimeInvalid
    ELSE IF Unix(Date(event[e]).date) <= Unix(now) THEN ErrEventInPast
    ELSE NoError

\* s.Schedule(e), called by the test: an event that passes the two checks is
\* counted in wg and gets its goroutine.
MainSchedule ==
    /\ Running
    /\ main # <<>> /\ Head(main).op = "Schedule"
    /\ LET e == Head(main).e IN
        /\ errs' = [errs EXCEPT ![e] = Validate(e)]
        /\ IF Validate(e) = NoError
           THEN /\ scheduler' = [scheduler EXCEPT !.wg = @ + 1]
                /\ waiting' = [waiting EXCEPT ![e] = "select"]
           ELSE UNCHANGED <<scheduler, waiting>>
    /\ main' = Tail(main)
    /\ UNCHANGED <<actorVars, filterVars, panic, now, memory, closer, events, delivered>>

WaitFireStay(e) ==
    /\ Running
    /\ waiting[e] = "select"
    /\ now >= Date(event[e]).date
    /\ delivered' = Append(delivered, e)
    /\ waiting' = [waiting EXCEPT ![e] = "send"]
    /\ UNCHANGED <<actorVars, filterVars, main, panic, now, scheduler, memory, closer, events, errs>>
\* case <-time.After(waitDuration): s.delegate(s, e), and the deferred
\* s.wg.Done(). The timer has fired once the clock has reached the date.
WaitFire(e) ==
    /\ Running
    /\ waiting[e] = "select"
    /\ now >= Date(event[e]).date
    /\ delivered' = Append(delivered, e)
    /\ scheduler' = [scheduler EXCEPT !.wg = DoneCounter(@)]
    /\ panic' = DonePanic(scheduler.wg)
    /\ waiting' = [waiting EXCEPT ![e] = "exited"]
    /\ UNCHANGED <<actorVars, filterVars, main, now, memory, closer, events, errs>>

\* case <-s.stop, ready once the channel is closed.
WaitStop(e) ==
    /\ Running
    /\ waiting[e] = "select"
    /\ scheduler.stop
    /\ waiting' = [waiting EXCEPT ![e] = "send"]
    /\ UNCHANGED <<actorVars, filterVars, main, panic, now, scheduler, memory, closer, events,
                   delivered, errs>>

WaitSendDropped(e) ==
    /\ Running
    /\ waiting[e] = "send"
    /\ scheduler' = [scheduler EXCEPT !.wg = DoneCounter(@)]
    /\ panic' = DonePanic(scheduler.wg)
    /\ waiting' = [waiting EXCEPT ![e] = "exited"]
    /\ UNCHANGED <<actorVars, filterVars, main, now, memory, closer, events, delivered, errs>>
\* s.pendings <- e, and the deferred s.wg.Done(). The send blocks while the
\* buffer is full and panics on the closed channel.
WaitSend(e) ==
    /\ Running
    /\ waiting[e] = "send"
    /\ IF scheduler.pendings.closed
       THEN /\ panic' = SendOnClosed
            /\ UNCHANGED <<scheduler, waiting>>
       ELSE /\ Len(scheduler.pendings.buf) < scheduler.pendings.cap
            /\ scheduler' = [scheduler EXCEPT !.pendings.buf = Append(@, e),
                                              !.wg = DoneCounter(@)]
            /\ panic' = DonePanic(scheduler.wg)
            /\ waiting' = [waiting EXCEPT ![e] = "exited"]
    /\ UNCHANGED <<actorVars, filterVars, main, now, memory, closer, events, delivered, errs>>

\* s.Stop(), called by the test: close(s.stop), the goroutine that will close
\* pendings, and the start of the range loop.
MainSchedulerStop ==
    /\ Running
    /\ main # <<>> /\ Head(main).op = "Scheduler.Stop"
    /\ events.pc \in {"idle", "returned"}
    /\ IF scheduler.stop
       THEN /\ panic' = CloseOfClosed
            /\ UNCHANGED <<scheduler, closer, events>>
       ELSE /\ scheduler' = [scheduler EXCEPT !.stop = TRUE]
            /\ closer' = "wait"
            /\ events' = [pc |-> "range", list |-> <<>>]
            /\ panic' = panic
    /\ UNCHANGED <<actorVars, filterVars, main, now, memory, waiting, delivered, errs>>

CloserCloseEarly ==
    /\ Running
    /\ closer = "wait"
    /\ scheduler' = [scheduler EXCEPT !.pendings.closed = TRUE]
    /\ closer' = "closed"
    /\ UNCHANGED <<actorVars, filterVars, main, panic, now, memory, waiting, events, delivered, errs>>
\* s.wg.Wait() returns and close(s.pendings).
CloserClose ==
    /\ Running
    /\ closer = "wait"
    /\ scheduler.wg = 0
    /\ scheduler' = [scheduler EXCEPT !.pendings.closed = TRUE]
    /\ closer' = "closed"
    /\ UNCHANGED <<actorVars, filterVars, main, panic, now, memory, waiting, events, delivered, errs>>

\* for e := range s.pendings { events = append(events, e) }
SchedulerStopRange ==
    /\ Running
    /\ events.pc = "range"
    /\ scheduler.pendings.buf # <<>>
    /\ events' = [events EXCEPT !.list = Append(@, Received(scheduler.pendings))]
    /\ scheduler' = [scheduler EXCEPT !.pendings = AfterReceive(@)]
    /\ UNCHANGED <<actorVars, filterVars, main, panic, now, memory, waiting, closer, delivered, errs>>

\* The range loop ends on the closed and empty channel: return events.
SchedulerStopReturn ==
    /\ Running
    /\ events.pc = "range"
    /\ scheduler.pendings.buf = <<>> /\ scheduler.pendings.closed
    /\ events' = [events EXCEPT !.pc = "returned"]
    /\ main' = Tail(main)
    /\ UNCHANGED <<actorVars, filterVars, panic, now, scheduler, memory, waiting, closer, delivered,
                   errs>>

\* ------------------------------------------------------------ Test_Scheduler
\* The scheduler with the events 1..NEvent, event i dated i seconds after the
\* start, one of them (or none) with a datetime that does not parse; the
\* test schedules them in turn and stops the scheduler, at any time.
Events == 1..NEvent
TestScheduler == [i \in Events |-> Schedule(i)] \o <<SchedulerStop>>
Made(dates, attachments, heap, script) ==
    /\ Constructed(<<>>)
    /\ main = script
    /\ panic = NoPanic
    /\ now = 0
    /\ scheduler = NewScheduler("observe")
    /\ att = attachments
    /\ bytes = heap
    /\ got = <<>>
    /\ event = [i \in DOMAIN dates |-> NewEvent(dates[i], attachments)]
    /\ waiting = [i \in DOMAIN dates |-> "none"]
    /\ closer = "none"
    /\ events = [pc |-> "idle", list |-> <<>>]
    /\ delivered = <<>>
    /\ errs = [i \in DOMAIN dates |-> Unscheduled]
    /\ NoFilter
InitScheduler ==
    \E bad \in 0..NEvent :
        Made([i \in Events |-> IF i = bad THEN Invalid ELSE i],
             <<Attachment("Here!", Nil)>>, <<>>, TestScheduler)
NextScheduler ==
    \/ Tick
    \/ MainSchedule
    \/ \E e \in DOMAIN waiting : WaitFire(e)
    \/ \E e \in DOMAIN waiting : WaitStop(e)
    \/ \E e \in DOMAIN waiting : WaitSend(e)
    \/ MainSchedulerStop
    \/ CloserClose
    \/ SchedulerStopRange
    \/ SchedulerStopReturn
SpecScheduler == InitScheduler /\ [][NextScheduler]_vars

\* ------------------------------------------------------------ immutability
\* Test_Scheduler with NShared events made from one slice of attachments,
\* whose one Attachment has a Body of BodyLen bytes; after NewEvent the test
\* writes to its slice (att[0].Name = "THERE!") and to the slice it gets from
\* Attachments(), the bytes of the bodies included, while the events wait.
NShared == 2
BodyLen == 1
MaxByte == 1
Names == {"Here!", "THERE!"}
Shared == 1..NShared

\* Event.Attachments(): a new slice with the elements copied.
Attachments(e) == [i \in 1..Len(e.attachments) |-> e.attachments[i]]
\* What a reader of the attachments of event e finds: the names, and the
\* bytes of the bodies.
Observed(e) ==
    [i \in DOMAIN event[e].attachments |->
       [Name |-> event[e].attachments[i].Name,
        Body |-> IF event[e].attachments[i].Body = Nil THEN <<>>
                 ELSE bytes[event[e].attachments[i].Body]]]

\* The test is not inside a call of Stop.
MainRuns == events.pc # "range"

\* att[i].Name = name
AttSetName(i, name) ==
    /\ Running /\ MainRuns
    /\ i \in DOMAIN att /\ att[i].Name # name
    /\ att' = [att EXCEPT ![i].Name = name]
    /\ UNCHANGED <<actorVars, filterVars, main, panic, now, scheduler, event, waiting, closer, events,
                   delivered, errs, bytes, got>>
\* att[i].Body[j] = b
AttSetBody(i, j, b) ==
    /\ Running /\ MainRuns
    /\ i \in DOMAIN att /\ att[i].Body # Nil
    /\ j \in DOMAIN bytes[att[i].Body] /\ bytes[att[i].Body][j] # b
    /\ bytes' = [bytes EXCEPT ![att[i].Body][j] = b]
    /\ UNCHANGED <<actorVars, filterVars, main, panic, now, scheduler, event, waiting, closer, events,
                   delivered, errs, att, got>>
\* got := e.Attachments()
GetAttachments(e) ==
    /\ Running /\ MainRuns
    /\ got # Attachments(event[e])
    /\ got' = Attachments(event[e])
    /\ UNCHANGED <<actorVars, filterVars, main, panic, now, scheduler, event, waiting, closer, events,
                   delivered, errs, att, bytes>>
\* got[i].Name = name
GotSetName(i, name) ==
    /\ Running /\ MainRuns
    /\ i \in DOMAIN got /\ got[i].Name # name
    /\ got' = [got EXCEPT ![i].Name = name]
    /\ UNCHANGED <<actorVars, filterVars, main, panic, now, scheduler, event, waiting, closer, events,
                   delivered, errs, att, bytes>>
\* got[i].Body[j] = b
GotSetBody(i, j, b) ==
    /\ Running /\ MainRuns
    /\ i \in DOMAIN got /\ got[i].Body # Nil
    /\ j \in DOMAIN bytes[got[i].Body] /\ bytes[got[i].Body][j] # b
    /\ bytes' = [bytes EXCEPT ![got[i].Body][j] = b]
    /\ UNCHANGED <<actorVars, filterVars, main, panic, now, scheduler, event, waiting, closer, events,
                   delivered, errs, att, got>>

\* The attachments the events are made from, and the memory of their bodies.
TestAtt == <<Attachment("Here!", 1)>>
TestBytes == <<[j \in 1..BodyLen |-> 0]>>
TestShared == [i \in Shared |-> Schedule(i)] \o <<SchedulerStop>>
InitShared == Made([i \in Shared |-> i], TestAtt, TestBytes, TestShared)
NextShared ==
    \/ Tick
    \/ MainSchedule
    \/ \E e \in DOMAIN waiting : WaitFire(e)
    \/ \E e \in DOMAIN waiting : WaitStop(e)
    \/ \E e \in DOMAIN waiting : WaitSend(e)
    \/ MainSchedulerStop
    \/ CloserClose
    \/ SchedulerStopRange
    \/ SchedulerStopReturn
    \/ \E i \in DOMAIN att : \E name \in Names : AttSetName(i, name)
    \/ \E i \in DOMAIN att : \E j \in 1..BodyLen : \E b \in 0..MaxByte : AttSetBody(i, j, b)
    \/ \E e \in DOMAIN event : GetAttachments(e)
    \/ \E i \in DOMAIN got : \E name \in Names : GotSetName(i, name)
    \/ \E i \in DOMAIN got : \E j \in 1..BodyLen : \E b \in 0..MaxByte : GotSetBody(i, j, b)
SpecShared == InitShared /\ [][NextShared]_vars

\* What NewEvent was given, as a reader finds it.
AsGiven == [i \in DOMAIN TestAtt |-> [Name |-> TestAtt[i].Name, Body |-> TestBytes[TestAtt[i].Body]]]

\* C36: whatever the caller writes to its slice of attachments after NewEvent,
\* or to a slice it got from Attachments(), the delegate finds the attachments
\* of the event it is called with (names and bodies) as NewEvent was given
\* them.
C36_EventImmutable ==
    [][\A e \in Shared :
         (waiting[e] = "select" /\ waiting'[e] = "exited") => Observed(e) = AsGiven]_vars
\* How often x occurs in the list s.
Count(x, s) == Cardinality({i \in DOMAIN s : s[i] = x})
Accepted(e) == errs[e] = NoError

\* C33: an event Schedule accepted is never both passed to the delegate and
\* reported by Stop, nor either of them twice; and when Stop has returned it
\* is exactly one of the two: the list Stop returns holds exactly the accepted
\* events that were not passed to the delegate.
C33_DisposedOnce ==
    /\ \A e \in Events :
         Accepted(e) =>
            Count(e, delivered) + Count(e, scheduler.pendings.buf)
              + Count(e, events.list) <= 1
    /\ events.pc = "returned" =>
         /\ \A e \in Events :
              Accepted(e) => Count(e, delivered) + Count(e, events.list) = 1
         /\ Range(events.list) = {e \in Events : Accepted(e)} \ Range(delivered)
\* Stop has returned with one event passed to the delegate and another one
\* in its list.
C33_Witness ==
    /\ events.pc = "returned"
    /\ delivered # <<>>
    /\ events.list # <<>>

\* The Go scheduler's fairness for Test_Scheduler: a goroutine that can take
\* its next step takes it (a select with both cases ready takes either).
FairScheduler ==
    /\ WF_vars(MainSchedule)
    /\ WF_vars(MainSchedulerStop)
    /\ \A e \in Events : WF_vars(WaitFire(e) \/ WaitStop(e))
    /\ \A e \in Events : WF_vars(WaitSend(e))
    /\ WF_vars(CloserClose)
    /\ WF_vars(SchedulerStopRange)
    /\ WF_vars(SchedulerStopReturn)
SpecSchedulerFair == InitScheduler /\ [][NextScheduler]_vars /\ FairScheduler

\* C34: Stop returns in the end, however many events are waiting; pendings is
\* closed only when every goroutine Schedule fired has exited, and the range
\* loop of Stop ends only on the closed channel.
C34_StopReturns ==
    /\ <>(events.pc = "returned")
    /\ [](scheduler.pendings.closed =>
            /\ \A e \in Events : waiting[e] \in {"none", "exited"}
            /\ scheduler.wg = 0)
    /\ [](events.pc = "returned" => scheduler.pendings.closed)
\* Stop has returned more events than the buffer of pendings holds.
C34_Witness ==
    /\ events.pc = "returned"
    /\ Len(events.list) > PendingsBuffer

\* The step of a call Schedule(e).
Scheduling(e) == main # <<>> /\ Head(main) = Schedule(e) /\ main' = Tail(main)

\* C35: Schedule returns ErrTimeInvalid for a datetime that does not parse and
\* ErrEventInPast for one that is not after the present time; such a call
\* leaves the scheduler as it was (no goroutine, wg not incremented), and the
\* event is never passed to the delegate nor reported by Stop.
C35_Rejected ==
    /\ [][\A e \in Events :
            Scheduling(e) =>
               /\ event[e].datetime = Invalid => errs'[e] = ErrTimeInvalid
               /\ (event[e].datetime # Invalid /\ Date(event[e]).date <= now)
                     => errs'[e] = ErrEventInPast
               /\ errs'[e] \in {ErrTimeInvalid, ErrEventInPast} =>
                     UNCHANGED <<scheduler, waiting, closer, events, delivered>>]_vars
    /\ [](\A e \in Events :
            errs[e] \in {ErrTimeInvalid, ErrEventInPast} =>
               /\ waiting[e] = "none"
               /\ Count(e, delivered) + Count(e, scheduler.pendings.buf)
                    + Count(e, events.list) = 0)
\* One event was rejected for its datetime and another one for being in the
\* past, and Stop has returned.
C35_Witness ==
    /\ \E e \in Events : errs[e] = ErrTimeInvalid
    /\ \E e \in Events : errs[e] = ErrEventInPast /\ Date(event[e]).date = now
    /\ events.pc = "returned"

\* --------------------------------------------------------------- after Stop
\* The test schedules one event, stops the scheduler, and then schedules the
\* other events.
AfterStop == 2..NEvent
TestAfterStop == <<Schedule(1), SchedulerStop>> \o [i \in 1..(NEvent - 1) |-> Schedule(i + 1)]
InitAfterStop ==
    Made([i \in Events |-> i], <<Attachment("Here!", Nil)>>, <<>>, TestAfterStop)
SpecAfterStop == InitAfterStop /\ [][NextScheduler]_vars

\* C37 as stated: an event Schedule accepted after Stop had returned is never
\* passed to the delegate and never reported by Stop, and its goroutine does
\* not end but in the panic.
C37_NeverDelivered ==
    \A e \in AfterStop :
        Accepted(e) =>
            /\ Count(e, delivered) = 0
            /\ Count(e, events.list) = 0
            /\ waiting[e] # "exited"

\* C37, amended: an event Schedule accepted after Stop had returned is never
\* reported by Stop and never dropped in silence. Its goroutine ends in one
\* of two ways: the send on the closed pendings channel, which panics, or,
\* when the time of the event has come before the goroutine reaches its
\* select, the call of the delegate with the event.
C37_FiredOrFatal ==
    \A e \in AfterStop :
        Accepted(e) =>
            /\ Count(e, events.list) = 0
            /\ Count(e, scheduler.pendings.buf) = 0
            /\ waiting[e] = "send" => scheduler.pendings.closed
            /\ waiting[e] = "exited" <=> Count(e, delivered) = 1
            /\ Count(e, delivered) = 1 => now >= Date(event[e]).date
            /\ panic # NoPanic => panic = SendOnClosed
\* One event scheduled after Stop was passed to the delegate, and the
\* goroutine of another one has panicked.
C37_Witness ==
    /\ \E e \in AfterStop : Count(e, delivered) = 1
    /\ \E e \in AfterStop : waiting[e] = "send" /\ panic = SendOnClosed

\* ================================================================== filter
\* The longest source, and the largest value of an element.
MaxLen == 4
MaxElem == 1
\* make(chan *reflect.Value, 3)
QueueBuffer == 3

Values == 0..MaxElem
Slices == UNION {[1..n -> Values] : n \in 0..MaxLen}
\* A filter function, as the set of the values it returns true for.
Filters == SUBSET Values
\* &entry, which is never the nil pointer, and the nil pointer.
Pointer(v) == <<v>>
NilPointer == <<>>

\* The variables of package scheduler.
schedulerVars == <<now, scheduler, memory, waiting, closer, events, delivered, errs>>

ParallelFilterReturnEarly ==
    /\ Running
    /\ parallel.pc = "wait"
    /\ queue' = [queue EXCEPT !.closed = TRUE]
    /\ parallel' = [pc |-> "returned", returned |-> result]
    /\ UNCHANGED <<actorVars, schedulerVars, main, panic, srcV, filter, wg, result,
                   checks, collector>>

\* ParallelFilter(source, filter) up to wg.Wait(): wg.Add(srcV.Len()), the
\* queue, the goroutine that collects, and one goroutine for each entry.
ParallelFilterBegin ==
    /\ Running
    /\ parallel.pc = "call"
    /\ wg' = wg + Len(srcV)
    /\ queue' = [buf |-> <<>>, cap |-> QueueBuffer, closed |-> FALSE]
    /\ result' = <<>>
    /\ collector' = "range"
    /\ checks' = [i \in 1..Len(srcV) |-> "check"]
    /\ parallel' = [parallel EXCEPT !.pc = "wait"]
    /\ UNCHANGED <<actorVars, schedulerVars, main, panic, srcV, filter>>

\* The goroutine of entry idx: the call of the filter function, then
\* queue <- &entry for a valid entry and queue <- nil for any other. The send
\* blocks while the buffer is full and panics on the closed channel.
Check(idx) ==
    /\ Running
    /\ checks[idx] = "check"
    /\ IF queue.closed
       THEN /\ panic' = SendOnClosed
            /\ UNCHANGED <<queue, checks>>
       ELSE /\ Len(queue.buf) < queue.cap
            /\ queue' = [queue EXCEPT !.buf =
                           Append(@, IF srcV[idx] \in filter THEN Pointer(srcV[idx])
                                      ELSE NilPointer)]
            /\ checks' = [checks EXCEPT ![idx] = "done"]
            /\ panic' = panic
    /\ UNCHANGED <<actorVars, schedulerVars, main, srcV, filter, wg, result, collector,
                   parallel>>

\* for entry := range queue: an entry that is not nil is appended to the
\* result; wg.Done() for every entry.
Collect ==
    /\ Running
    /\ collector = "range"
    /\ queue.buf # <<>>
    /\ result' = IF Received(queue) # NilPointer
                 THEN Append(result, Received(queue)[1]) ELSE result
    /\ queue' = AfterReceive(queue)
    /\ wg' = DoneCounter(wg)
    /\ panic' = DonePanic(wg)
    /\ UNCHANGED <<actorVars, schedulerVars, main, srcV, filter, checks, collector, parallel>>

\* The range loop ends on the closed and empty channel.
CollectorExit ==
    /\ Running
    /\ collector = "range"
    /\ queue.buf = <<>> /\ queue.closed
    /\ collector' = "exited"
    /\ UNCHANGED <<actorVars, schedulerVars, main, panic, srcV, filter, wg, queue, result,
                   checks, parallel>>

\* wg.Wait() returns; close(queue); return of the result slice.
ParallelFilterReturn ==
    /\ Running
    /\ parallel.pc = "wait"
    /\ wg = 0
    /\ queue' = [queue EXCEPT !.closed = TRUE]
    /\ parallel' = [pc |-> "returned", returned |-> result]
    /\ UNCHANGED <<actorVars, schedulerVars, main, panic, srcV, filter, wg, result,
                   checks, collector>>

\* A call of ParallelFilter with any source of up to MaxLen elements and any
\* filter function; every goroutine that can take its next step takes it.
InitFilter ==
    \E s \in Slices : \E f \in Filters :
        /\ Constructed(<<>>)
        /\ main = <<>>
        /\ panic = NoPanic
        /\ NoScheduler
        /\ srcV = s
        /\ filter = f
        /\ wg = 0
        /\ queue = [buf |-> <<>>, cap |-> 0, closed |-> FALSE]
        /\ result = <<>>
        /\ checks = <<>>
        /\ collector = "none"
        /\ parallel = [pc |-> "call", returned |-> <<>>]
NextFilter ==
    \/ ParallelFilterBegin
    \/ \E idx \in DOMAIN checks : Check(idx)
    \/ Collect
    \/ CollectorExit
    \/ ParallelFilterReturn
FairFilter ==
    /\ WF_vars(ParallelFilterBegin)
    /\ \A idx \in 1..MaxLen : WF_vars(idx \in DOMAIN checks /\ Check(idx))
    /\ WF_vars(Collect)
    /\ WF_vars(CollectorExit)
    /\ WF_vars(ParallelFilterReturn)
SpecFilter == InitFilter /\ [][NextFilter]_vars /\ FairFilter

\* The entries of the source the filter function returns true for.
Valid == LET keep(v) == v \in filter IN SelectSeq(srcV, keep)

\* C38: ParallelFilter returns in the end, and what it returns holds exactly
\* the entries of the source for which the filter function returns true, each
\* as often as the source holds it, in any order; it returns only when every
\* entry was checked and its verdict collected.
C38_ParallelFilter ==
    /\ <>(parallel.pc = "returned")
    /\ [](parallel.pc = "returned" =>
            /\ SeqToBag(parallel.returned) = SeqToBag(Valid)
            /\ \A idx \in DOMAIN srcV : checks[idx] = "done"
            /\ queue.buf = <<>> /\ wg = 0)
\* The call has returned for a source longer than the buffer of the queue,
\* with an entry twice in the result and another entry filtered out.
C38_Witness ==
    /\ parallel.pc = "returned"
    /\ Len(srcV) > QueueBuffer
    /\ \E i \in DOMAIN parallel.returned : \E j \in DOMAIN parallel.returned :
          i < j /\ parallel.returned[i] = parallel.returned[j]
    /\ Len(parallel.returned) < Len(srcV)

====
